---- MODULE Spec2Model ----
(***************************************************************************)
(* Publication dashboard: the filter engine (matchesFilters and its        *)
(* copies), the filtered list of MainView, and the SearchBar draft /       *)
(* apply / clear cycle that commits the criteria.                          *)
(*                                                                         *)
(* JavaScript values are represented as follows.                           *)
(*   string            a sequence of one-character strings                 *)
(*   string|number|undefined   [t, s, n] with t the typeof                 *)
(*   number            [nan, v]; a time value is counted in minutes        *)
(*   array|undefined   [def, a] with a the sequence of elements            *)
(*   call outcome      [threw, val]                                        *)
(***************************************************************************)
EXTENDS Integers, Sequences, FiniteSets, TLC

(***************************************************************************)
(* JavaScript built-ins used by the filter engine.                         *)
(***************************************************************************)

\* The characters that occur in the inputs, in UTF-16 code unit order.
CodeOrder ==
  << " ", "-", "/", "0", "1", "2", "3", "4", "5", "6", "7", "8", "9", ":",
     "A", "B", "C", "D", "E", "F", "G", "H", "I", "J", "K", "L", "M",
     "N", "O", "P", "Q", "R", "S", "T", "U", "V", "W", "X", "Y", "Z",
     "a", "b", "c", "d", "e", "f", "g", "h", "i", "j", "k", "l", "m",
     "n", "o", "p", "q", "r", "s", "t", "u", "v", "w", "x", "y", "z" >>

Chars == { CodeOrder[i] : i \in DOMAIN CodeOrder }

CodeOf == [c \in Chars |-> CHOOSE i \in DOMAIN CodeOrder : CodeOrder[i] = c]

\* Position of a character in code unit order (order isomorphic to charCodeAt).
CharCode(c) == CodeOf[c]

IsUpper(c) == CharCode(c) >= CharCode("A") /\ CharCode(c) <= CharCode("Z")

IsDigit(c) == CharCode(c) >= CharCode("0") /\ CharCode(c) <= CharCode("9")

DigitValue(c) == CharCode(c) - CharCode("0")

\* String.prototype.toLowerCase
ToLowerCase(s) ==
  [i \in DOMAIN s |->
     IF IsUpper(s[i])
       THEN CodeOrder[CharCode(s[i]) + (CharCode("a") - CharCode("A"))]
       ELSE s[i]]

\* String.prototype.includes
StrIncludes(s, sub) ==
  \E k \in 0..(Len(s) - Len(sub)) : SubSeq(s, k + 1, k + Len(sub)) = sub

\* Array.prototype.includes on an array of strings (strict equality).
ArrIncludes(arr, x) == \E i \in DOMAIN arr : arr[i] = x

\* s < t for strings: comparison by code units, a proper prefix is smaller.
RECURSIVE StrLess(_, _)
StrLess(s, t) ==
  IF t = << >> THEN FALSE
  ELSE IF s = << >> THEN TRUE
  ELSE IF Head(s) = Head(t) THEN StrLess(Tail(s), Tail(t))
  ELSE CharCode(Head(s)) < CharCode(Head(t))

StrGE(s, t) == ~StrLess(s, t)

StrLE(s, t) == ~StrLess(t, s)

\* typeof-tagged values
Undefined == [t |-> "undefined", s |-> << >>, n |-> 0]

Str(s) == [t |-> "string", s |-> s, n |-> 0]

Num(n) == [t |-> "number", s |-> << >>, n |-> n]

\* numbers
NaN == [nan |-> TRUE, v |-> 0]

Finite(n) == [nan |-> FALSE, v |-> n]

\* a >= b and a <= b on numbers: false as soon as one side is NaN.
NumGE(a, b) == ~a.nan /\ ~b.nan /\ a.v >= b.v

NumLE(a, b) == ~a.nan /\ ~b.nan /\ a.v <= b.v

\* !x
Not(x) ==
  CASE x.t = "undefined" -> TRUE
    [] x.t = "string" -> x.s = << >>
    [] x.t = "number" -> x.n = 0

RECURSIVE TrimStart(_)
TrimStart(s) ==
  IF s # << >> /\ Head(s) = " " THEN TrimStart(Tail(s)) ELSE s

RECURSIVE TrimEnd(_)
TrimEnd(s) ==
  IF s # << >> /\ s[Len(s)] = " " THEN TrimEnd(SubSeq(s, 1, Len(s) - 1)) ELSE s

RECURSIVE DecimalValue(_)
DecimalValue(s) ==
  IF s = << >> THEN 0
  ELSE 10 * DecimalValue(SubSeq(s, 1, Len(s) - 1)) + DigitValue(s[Len(s)])

AllDigits(s) == \A i \in DOMAIN s : IsDigit(s[i])

\* StringToNumber for the characters of CodeOrder: white space is trimmed, the
\* empty string is 0, a run of decimal digits is its value, anything else NaN.
\* (Signs, fractions, exponents and radix prefixes use characters outside
\* CodeOrder.)
StringToNumber(s) ==
  LET body == TrimEnd(TrimStart(s))
  IN  IF body = << >> THEN Finite(0)
      ELSE IF AllDigits(body) THEN Finite(DecimalValue(body))
      ELSE NaN

\* Number(x), and the ToNumber of a relational comparison
ToNumber(x) ==
  CASE x.t = "undefined" -> NaN
    [] x.t = "string" -> StringToNumber(x.s)
    [] x.t = "number" -> Finite(x.n)

\* Days from 1970-01-01 to the civil date y-m-d (proleptic Gregorian).
DaysFromCivil(y, m, d) ==
  LET yy  == IF m <= 2 THEN y - 1 ELSE y
      era == yy \div 400
      yoe == yy - era * 400
      mp  == IF m > 2 THEN m - 3 ELSE m + 9
      doy == (153 * mp + 2) \div 5 + d - 1
      doe == yoe * 365 + yoe \div 4 - yoe \div 100 + doy
  IN  era * 146097 + doe - 719468

\* YYYY-MM-DD
IsIsoDate(s) ==
  /\ Len(s) = 10
  /\ \A i \in {1, 2, 3, 4, 6, 7, 9, 10} : IsDigit(s[i])
  /\ s[5] = "-" /\ s[8] = "-"
  /\ DecimalValue(SubSeq(s, 6, 7)) \in 1..12
  /\ DecimalValue(SubSeq(s, 9, 10)) \in 1..31

\* YYYY-MM-DDTHH:mmZ
IsIsoDateTime(s) ==
  /\ Len(s) = 17
  /\ IsIsoDate(SubSeq(s, 1, 10))
  /\ s[11] = "T" /\ s[14] = ":" /\ s[17] = "Z"
  /\ \A i \in {12, 13, 15, 16} : IsDigit(s[i])
  /\ DecimalValue(SubSeq(s, 12, 13)) \in 0..23
  /\ DecimalValue(SubSeq(s, 15, 16)) \in 0..59

IsoDay(s) ==
  DaysFromCivil(DecimalValue(SubSeq(s, 1, 4)),
                DecimalValue(SubSeq(s, 6, 7)),
                DecimalValue(SubSeq(s, 9, 10)))

\* The time value of new Date(s), in minutes since the epoch: a date-only form
\* is UTC midnight, a date-time form with Z is UTC, and a string in neither
\* form is an Invalid Date (NaN).  The inputs hold no string that an engine's
\* fallback parser accepts.
NewDate(s) ==
  IF IsIsoDate(s) THEN Finite(IsoDay(s) * (24 * 60))
  ELSE IF IsIsoDateTime(s)
    THEN Finite(IsoDay(s) * (24 * 60)
                + DecimalValue(SubSeq(s, 12, 13)) * 60
                + DecimalValue(SubSeq(s, 15, 16)))
  ELSE NaN

\* array | undefined
NoArray == [def |-> FALSE, a |-> << >>]

Arr(a) == [def |-> TRUE, a |-> a]

\* outcome of a call
Threw == [threw |-> TRUE, val |-> FALSE]

Returned(b) == [threw |-> FALSE, val |-> b]

(***************************************************************************)
(* matchesFilters of mainView.tsx                                          *)
(***************************************************************************)

titleMatch(item, filters) ==
  \/ filters.title = << >>
  \/ StrIncludes(ToLowerCase(item.Title), ToLowerCase(filters.title))

linkMatch(item, filters) ==
  \/ filters.link = << >>
  \/ StrIncludes(ToLowerCase(item.Link), ToLowerCase(filters.link))

\* Mutant of pmidMatch: the bounds are exclusive (> and < for >= and <=).
pmidMatch_Exclusive(item, filters) ==
  /\ \/ Not(filters.pmidMin)
     \/ /\ NumGE(ToNumber(item.pmid), ToNumber(filters.pmidMin))
        /\ ~NumLE(ToNumber(item.pmid), ToNumber(filters.pmidMin))
  /\ \/ Not(filters.pmidMax)
     \/ /\ NumLE(ToNumber(item.pmid), ToNumber(filters.pmidMax))
        /\ ~NumGE(ToNumber(item.pmid), ToNumber(filters.pmidMax))

pmidMatch(item, filters) ==
  /\ \/ Not(filters.pmidMin)
     \/ NumGE(ToNumber(item.pmid), ToNumber(filters.pmidMin))
  /\ \/ Not(filters.pmidMax)
     \/ NumLE(ToNumber(item.pmid), ToNumber(filters.pmidMax))

\* Mutant of dateMatch: written as !(date < from) and !(date > to), which an
\* Invalid Date passes.
dateMatch_NotOutside(item, filters) ==
  /\ \/ filters.dateFrom = << >>
     \/ NumGE(NewDate(item.DP), NewDate(filters.dateFrom))
     \/ NewDate(item.DP).nan
  /\ \/ filters.dateTo = << >>
     \/ NumLE(NewDate(item.DP), NewDate(filters.dateTo))
     \/ NewDate(item.DP).nan

dateMatch(item, filters) ==
  /\ \/ filters.dateFrom = << >>
     \/ NumGE(NewDate(item.DP), NewDate(filters.dateFrom))
  /\ \/ filters.dateTo = << >>
     \/ NumLE(NewDate(item.DP), NewDate(filters.dateTo))

\* item.tags ?? []
itemTags(item) == IF item.tags.def THEN item.tags.a ELSE << >>

\* Mutant of includeMatch: the two branches of includeLogic are swapped.
includeMatch_Swapped(item, filters) ==
  \/ Len(filters.includeTags.a) = 0
  \/ IF filters.includeLogic = "AND"
       THEN \E i \in DOMAIN filters.includeTags.a :
              ArrIncludes(itemTags(item), filters.includeTags.a[i])
       ELSE \A i \in DOMAIN filters.includeTags.a :
              ArrIncludes(itemTags(item), filters.includeTags.a[i])

includeMatch(item, filters) ==
  \/ Len(filters.includeTags.a) = 0
  \/ IF filters.includeLogic = "AND"
       THEN \A i \in DOMAIN filters.includeTags.a :
              ArrIncludes(itemTags(item), filters.includeTags.a[i])
       ELSE \E i \in DOMAIN filters.includeTags.a :
              ArrIncludes(itemTags(item), filters.includeTags.a[i])

\* Mutant of excludeMatch: a record that carries an included tag is kept.
excludeMatch_IncludedWins(item, filters) ==
  \/ Len(filters.excludeTags.a) = 0
  \/ \E i \in DOMAIN filters.includeTags.a :
        ArrIncludes(itemTags(item), filters.includeTags.a[i])
  \/ ~\E i \in DOMAIN filters.excludeTags.a :
        ArrIncludes(itemTags(item), filters.excludeTags.a[i])

excludeMatch(item, filters) ==
  \/ Len(filters.excludeTags.a) = 0
  \/ ~\E i \in DOMAIN filters.excludeTags.a :
        ArrIncludes(itemTags(item), filters.excludeTags.a[i])

\* Reading .length of a missing includeTags or excludeTags is a TypeError.
matchesFiltersThrows(item, filters) ==
  ~filters.includeTags.def \/ ~filters.excludeTags.def

\* Mutant of matchesFilters: excludeMatch is left out of the conjunction.
matchesFilters_NoExclusion(item, filters) ==
  IF matchesFiltersThrows(item, filters) THEN Threw
  ELSE Returned(/\ titleMatch(item, filters)
                /\ linkMatch(item, filters)
                /\ pmidMatch(item, filters)
                /\ dateMatch(item, filters)
                /\ includeMatch(item, filters))

matchesFilters(item, filters) ==
  IF matchesFiltersThrows(item, filters) THEN Threw
  ELSE Returned(/\ titleMatch(item, filters)
                /\ linkMatch(item, filters)
                /\ pmidMatch(item, filters)
                /\ dateMatch(item, filters)
                /\ includeMatch(item, filters)
                /\ excludeMatch(item, filters))

(***************************************************************************)
(* matchesFilters exported by searchBar.tsx                                *)
(***************************************************************************)

searchBar_titleMatch(item, filters) ==
  StrIncludes(ToLowerCase(item.Title), ToLowerCase(filters.title))

searchBar_linkMatch(item, filters) ==
  \/ filters.link = << >>
  \/ StrIncludes(item.Link, filters.link)

\* number >= string: the string operand goes through ToNumber.
searchBar_pmidMatch(item, filters) ==
  /\ \/ Not(filters.pmidMin)
     \/ NumGE(ToNumber(item.pmid), ToNumber(filters.pmidMin))
  /\ \/ Not(filters.pmidMax)
     \/ NumLE(ToNumber(item.pmid), ToNumber(filters.pmidMax))

\* string >= string: compared by code units.
searchBar_dateMatch(item, filters) ==
  /\ \/ filters.dateFrom = << >>
     \/ StrGE(item.DP, filters.dateFrom)
  /\ \/ filters.dateTo = << >>
     \/ StrLE(item.DP, filters.dateTo)

searchBar_includeMatch(item, filters) ==
  \/ Len(filters.includeTags.a) = 0
  \/ IF filters.includeLogic = "AND"
       THEN \A i \in DOMAIN filters.includeTags.a :
              ArrIncludes(item.tags.a, filters.includeTags.a[i])
       ELSE \E i \in DOMAIN filters.includeTags.a :
              ArrIncludes(item.tags.a, filters.includeTags.a[i])

searchBar_excludeMatch(item, filters) ==
  \/ Len(filters.excludeTags.a) = 0
  \/ ~\E i \in DOMAIN filters.excludeTags.a :
        ArrIncludes(item.tags.a, filters.excludeTags.a[i])

\* TypeError: .length of a missing tag list of the criteria, or
\* item.tags.includes on a record without tags as soon as every/some calls
\* back once (the list is not empty).
searchBar_matchesFiltersThrows(item, filters) ==
  \/ ~filters.includeTags.def
  \/ Len(filters.includeTags.a) > 0 /\ ~item.tags.def
  \/ ~filters.excludeTags.def
  \/ Len(filters.excludeTags.a) > 0 /\ ~item.tags.def

searchBar_matchesFilters(item, filters) ==
  IF searchBar_matchesFiltersThrows(item, filters) THEN Threw
  ELSE Returned(/\ searchBar_titleMatch(item, filters)
                /\ searchBar_linkMatch(item, filters)
                /\ searchBar_pmidMatch(item, filters)
                /\ searchBar_dateMatch(item, filters)
                /\ searchBar_includeMatch(item, filters)
                /\ searchBar_excludeMatch(item, filters))

(***************************************************************************)
(* matchesFilters of part_001 (the earlier MainView): the text constraints *)
(* and ranges of mainView.tsx, the tag constraints read from item.tags     *)
(***************************************************************************)

part001_matchesFiltersThrows(item, filters) ==
  \/ ~filters.includeTags.def
  \/ Len(filters.includeTags.a) > 0 /\ ~item.tags.def
  \/ ~filters.excludeTags.def
  \/ Len(filters.excludeTags.a) > 0 /\ ~item.tags.def

part001_includeMatch(item, filters) ==
  \/ Len(filters.includeTags.a) = 0
  \/ IF filters.includeLogic = "AND"
       THEN \A i \in DOMAIN filters.includeTags.a :
              ArrIncludes(item.tags.a, filters.includeTags.a[i])
       ELSE \E i \in DOMAIN filters.includeTags.a :
              ArrIncludes(item.tags.a, filters.includeTags.a[i])

part001_excludeMatch(item, filters) ==
  \/ Len(filters.excludeTags.a) = 0
  \/ ~\E i \in DOMAIN filters.excludeTags.a :
        ArrIncludes(item.tags.a, filters.excludeTags.a[i])

part001_matchesFilters(item, filters) ==
  IF part001_matchesFiltersThrows(item, filters) THEN Threw
  ELSE Returned(/\ titleMatch(item, filters)
                /\ linkMatch(item, filters)
                /\ pmidMatch(item, filters)
                /\ dateMatch(item, filters)
                /\ part001_includeMatch(item, filters)
                /\ part001_excludeMatch(item, filters))

\* matchesFilters of part_000: the text of the copy in part_001, without its
\* comments.
part000_matchesFilters(item, filters) ==
  IF part001_matchesFiltersThrows(item, filters) THEN Threw
  ELSE Returned(/\ titleMatch(item, filters)
                /\ linkMatch(item, filters)
                /\ pmidMatch(item, filters)
                /\ dateMatch(item, filters)
                /\ part001_includeMatch(item, filters)
                /\ part001_excludeMatch(item, filters))

(***************************************************************************)
(* MainView.filtered: list.filter((item) => matchesFilters(item, filters)) *)
(***************************************************************************)

RECURSIVE Reverse(_)
Reverse(q) == IF q = << >> THEN << >> ELSE Reverse(Tail(q)) \o << Head(q) >>

\* Mutant of MainViewFiltered: the accepted records come out last first.
MainViewFiltered_Reversed(list, filters) ==
  IF \E i \in DOMAIN list : matchesFilters(list[i], filters).threw
    THEN [threw |-> TRUE, val |-> << >>]
    ELSE [threw |-> FALSE,
          val |-> Reverse(SelectSeq(list,
                    LAMBDA it : matchesFilters(it, filters).val))]

\* Array.prototype.filter keeps, in index order, the elements the callback
\* accepts; a callback that throws ends the render with that exception.
MainViewFiltered(list, filters) ==
  IF \E i \in DOMAIN list : matchesFilters(list[i], filters).threw
    THEN [threw |-> TRUE, val |-> << >>]
    ELSE [threw |-> FALSE,
          val |-> SelectSeq(list, LAMBDA it : matchesFilters(it, filters).val)]

\* filtered of the MainView of part_001.
Part001Filtered(list, filters) ==
  IF \E i \in DOMAIN list : part001_matchesFilters(list[i], filters).threw
    THEN [threw |-> TRUE, val |-> << >>]
    ELSE [threw |-> FALSE,
          val |-> SelectSeq(list,
                    LAMBDA it : part001_matchesFilters(it, filters).val)]

\* The criteria MainView starts with and clearFilters commits.
DefaultFilters ==
  [title |-> << >>, link |-> << >>,
   pmidMin |-> Str(<< >>), pmidMax |-> Str(<< >>),
   dateFrom |-> << >>, dateTo |-> << >>,
   includeTags |-> Arr(<< >>), includeLogic |-> "AND",
   excludeTags |-> Arr(<< >>)]

(***************************************************************************)
(* Bounds of the checked inputs                                            *)
(***************************************************************************)

\* PMIDs and PMID bounds are the multiples of 100 up to 100 * MaxPmidStep.
MaxPmidStep == 3

\* Dates are the days 1..MaxDay of January 2020 (and the day before them).
MaxDay == 3

\* Number of distinct tag names in use.
MaxTags == 2

\* Longest dataset.
MaxRecords == 3

(***************************************************************************)
(* Input strings                                                           *)
(***************************************************************************)

DigitChar(d) == CodeOrder[CharCode("0") + d]

\* Number.prototype.toString for a non-negative integer.
RECURSIVE DecimalString(_)
DecimalString(n) ==
  IF n < 10 THEN << DigitChar(n) >>
  ELSE DecimalString(n \div 10) \o << DigitChar(n % 10) >>

TwoDigits(n) == << DigitChar(n \div 10), DigitChar(n % 10) >>

\* The value of an <input type="date">, and the preferred form of DP.
IsoDateString(y, m, d) ==
  DecimalString(y) \o << "-" >> \o TwoDigits(m) \o << "-" >> \o TwoDigits(d)

\* A DP that carries a time of day.
IsoDateTimeString(y, m, d, hh, mm) ==
  IsoDateString(y, m, d) \o << "T" >> \o TwoDigits(hh) \o << ":" >>
    \o TwoDigits(mm) \o << "Z" >>

JanuaryDay(d) == IsoDateString(2020, 1, d)

JanuaryNoon(d) == IsoDateTimeString(2020, 1, d, 12, 0)

NewYearsEve == IsoDateString(2019, 12, 31)

\* A text that is neither a number nor a date.
NotAvailable == << "n", "/", "a" >>

TagNames == << "genomics", "retracted", "review", "spaceflight" >>

\* The array of the tags whose index is in S, in the order of TagNames.
RECURSIVE TagArray(_, _)
TagArray(S, n) ==
  IF n = 0 THEN << >>
  ELSE TagArray(S, n - 1) \o (IF n \in S THEN << TagNames[n] >> ELSE << >>)

TagArrays == { TagArray(S, MaxTags) : S \in SUBSET (1..MaxTags) }

(***************************************************************************)
(* Publication records (type Pub) and criteria (type Filters)              *)
(***************************************************************************)

Focuses == {"title", "link", "pmid", "date", "tags", "optional", "all"}

\* A record that satisfies every criterion of the Lite sets below.
BaseItem ==
  [Title |-> << "A", "b" >>, Link |-> << "P", "M", "C", "1" >>,
   pmid |-> Num(100), DP |-> JanuaryDay(2),
   AU |-> Undefined, AB |-> Undefined, pmc_id |-> Undefined,
   tags |-> Arr(<< "genomics" >>)]

\* The values of one field: every value when the field is in focus, the base
\* value and one that differs when all fields vary together, else the base.
Pick(focus, group, rich, alt, base) ==
  IF focus = group THEN rich
  ELSE IF focus = "all" THEN {base, alt}
  ELSE {base}

ItemTitles == { << >>, << "A", "b" >>, << "b", "A" >> }

ItemLinks == { << "P", "M", "C", "1" >>, << "p", "m", "c", "2" >> }

ItemPmids ==
  { Num(100 * k) : k \in 0..MaxPmidStep }
    \cup { Str(DecimalString(100 * k)) : k \in 0..MaxPmidStep }
    \cup { Str(<< >>), Str(<< " " >>), Str(NotAvailable),
           Str(<< " " >> \o DecimalString(200) \o << " " >>) }

ItemDates ==
  { JanuaryDay(d) : d \in 1..MaxDay }
    \cup { JanuaryNoon(d) : d \in 1..MaxDay }
    \cup { NewYearsEve, << >>, NotAvailable }

ItemTags == { Arr(a) : a \in TagArrays } \cup { NoArray }

OptionalTexts == { Undefined, Str(<< "x" >>) }

Items(focus) ==
  { [Title |-> t, Link |-> l, pmid |-> p, DP |-> d,
     AU |-> au, AB |-> ab, pmc_id |-> pmc, tags |-> g] :
      t \in Pick(focus, "title", ItemTitles, << "z" >>, BaseItem.Title),
      l \in Pick(focus, "link", ItemLinks, << "d", "o", "i" >>, BaseItem.Link),
      p \in Pick(focus, "pmid", ItemPmids, Num(300), BaseItem.pmid),
      d \in Pick(focus, "date", ItemDates, NewYearsEve, BaseItem.DP),
      au \in Pick(focus, "optional", OptionalTexts, Undefined, Undefined),
      ab \in Pick(focus, "optional", OptionalTexts, Undefined, Undefined),
      pmc \in Pick(focus, "optional", OptionalTexts, Undefined, Undefined),
      g \in Pick(focus, "tags", ItemTags,
                 Arr(<< "genomics", "retracted" >>), BaseItem.tags) }

\* The values of one criterion: every value when it is in focus; else no
\* constraint, or (when criteria are combined) also one constraint that the
\* base record satisfies.
Crit(focus, combined, group, rich, neutral, active) ==
  IF focus = group THEN rich
  ELSE IF combined THEN {neutral, active}
  ELSE {neutral}

TitleCriteria ==
  { << >>, << "a" >>, << "A", "B" >>, << "b", "a" >>, << "a", "b", "a" >> }

LinkCriteria == { << >>, << "p", "m", "c" >>, << "C", "1" >>, << "c", "2" >> }

PmidBounds ==
  { Str(DecimalString(100 * k)) : k \in 0..MaxPmidStep }
    \cup { Undefined, Str(<< >>), Str(DecimalString(150)), Str(NotAvailable) }

DateBounds == { JanuaryDay(d) : d \in 1..MaxDay } \cup { << >>, NotAvailable }

TagCriteria ==
  { [include |-> Arr(i), logic |-> lg, exclude |-> Arr(e)] :
      i \in TagArrays, lg \in {"AND", "OR"}, e \in TagArrays }

CriteriaWith(focus, combined) ==
  { [title |-> t, link |-> l, pmidMin |-> pm.min, pmidMax |-> pm.max,
     dateFrom |-> dt.from, dateTo |-> dt.to,
     includeTags |-> tg.include, includeLogic |-> tg.logic,
     excludeTags |-> tg.exclude] :
      t \in Crit(focus, combined, "title", TitleCriteria, << >>, << "a" >>),
      l \in Crit(focus, combined, "link", LinkCriteria,
                 << >>, << "p", "m", "c" >>),
      pm \in Crit(focus, combined, "pmid",
                  [min : PmidBounds, max : PmidBounds],
                  [min |-> Str(<< >>), max |-> Str(<< >>)],
                  [min |-> Str(DecimalString(0)),
                   max |-> Str(DecimalString(100))]),
      dt \in Crit(focus, combined, "date",
                  [from : DateBounds, to : DateBounds],
                  [from |-> << >>, to |-> << >>],
                  [from |-> JanuaryDay(1), to |-> JanuaryDay(2)]),
      tg \in Crit(focus, combined, "tags", TagCriteria,
                  [include |-> Arr(<< >>), logic |-> "AND",
                   exclude |-> Arr(<< >>)],
                  [include |-> Arr(<< "genomics" >>), logic |-> "OR",
                   exclude |-> Arr(<< "review" >>)]) }

\* Criteria for one record: the focus in full, combined with the others.
Criteria(focus) == CriteriaWith(focus, TRUE)

\* Criteria applied to a dataset: each constraint alone in full, and the
\* combinations of one constraint of each kind.
ViewCriteria ==
  UNION { CriteriaWith(focus, focus = "all") : focus \in Focuses }

\* The bundled publications: the three records of the worked scenario, then
\* records with a blank or non-numeric PMID, an unparsable date, no tag list.
Catalogue ==
  << [Title |-> << "A", "l", "p", "h", "a" >>, Link |-> << "P", "M", "C", "1" >>,
      pmid |-> Num(100), DP |-> JanuaryDay(1),
      AU |-> Str(<< "x" >>), AB |-> Undefined, pmc_id |-> Str(<< "P", "M", "C", "1" >>),
      tags |-> Arr(<< "genomics" >>)],
     [Title |-> << "B", "e", "t", "a" >>, Link |-> << "p", "m", "c", "2" >>,
      pmid |-> Str(DecimalString(200)), DP |-> JanuaryDay(2),
      AU |-> Undefined, AB |-> Str(<< "x" >>), pmc_id |-> Undefined,
      tags |-> Arr(<< "genomics", "retracted" >>)],
     [Title |-> << "G", "a", "m", "m", "a" >>, Link |-> << "d", "o", "i" >>,
      pmid |-> Num(300), DP |-> JanuaryNoon(2),
      AU |-> Undefined, AB |-> Undefined, pmc_id |-> Undefined,
      tags |-> NoArray],
     [Title |-> << "A", "l", "p", "h", "a" >>, Link |-> << "P", "M", "C", "1" >>,
      pmid |-> Str(<< >>), DP |-> NotAvailable,
      AU |-> Undefined, AB |-> Undefined, pmc_id |-> Undefined,
      tags |-> Arr(<< "retracted" >>)],
     [Title |-> << "b", "A" >>, Link |-> << "p", "m", "c", "2" >>,
      pmid |-> Str(NotAvailable), DP |-> << >>,
      AU |-> Undefined, AB |-> Undefined, pmc_id |-> Undefined,
      tags |-> Arr(<< >>)] >>

\* A dataset is empty or a run of MaxRecords consecutive catalogue records.
Datasets ==
  { << >> } \cup
  { SubSeq(Catalogue, i, i + MaxRecords - 1) :
      i \in 1..(Len(Catalogue) - MaxRecords + 1) }

(***************************************************************************)
(* The sort engine of mainView.tsx: compare, getComparator, stableSort     *)
(***************************************************************************)

\* The columns whose header sorts the table.
SortFields == {"pmid", "pmc_id", "Title", "DP"}

Orders == {"asc", "desc"}

\* A Date object with the given time value.
DateObject(time) == [t |-> "Date", s |-> << >>, n |-> time]

\* A string, number or undefined value as compare receives it.
Plain(x) == [t |-> x.t, s |-> x.s, n |-> Finite(x.n)]

\* a - b on numbers.
NumMinus(a, b) == IF a.nan \/ b.nan THEN NaN ELSE Finite(a.v - b.v)

\* -a on numbers.
NumNegate(a) == IF a.nan THEN NaN ELSE Finite(0 - a.v)

\* String(x) for a string or a number (the inputs' numbers are integers >= 0).
StringOf(x) ==
  CASE x.t = "string" -> x.s
    [] x.t = "number" ->
         IF x.n.nan THEN << "N", "a", "N" >> ELSE DecimalString(x.n.v)

\* Primary collation weight of a character that is no digit: white space,
\* then punctuation, then (after the digits) the letters without their case.
PrimaryWeight(c) ==
  CASE c = " " -> 1
    [] c = "-" -> 2
    [] c = ":" -> 3
    [] c = "/" -> 4
    [] OTHER   -> 20 + CharCode(ToLowerCase(<< c >>)[1])

\* Primary weight under which every digit run sorts: after punctuation,
\* before letters.
DigitWeight == 10

\* The length of the run of digits that s starts with.
RECURSIVE DigitRun(_)
DigitRun(s) ==
  IF s # << >> /\ IsDigit(Head(s)) THEN 1 + DigitRun(Tail(s)) ELSE 0

Sign(n) == IF n < 0 THEN -1 ELSE IF n > 0 THEN 1 ELSE 0

\* s.localeCompare(t, undefined, { numeric: true, sensitivity: "base" }) for
\* strings over CodeOrder: primary weights only (case ignored), digit runs by
\* their numeric value, a proper prefix first.
RECURSIVE LocaleCompare(_, _)
LocaleCompare(s, t) ==
  IF s = << >> /\ t = << >> THEN 0
  ELSE IF s = << >> THEN -1
  ELSE IF t = << >> THEN 1
  ELSE IF IsDigit(Head(s)) /\ IsDigit(Head(t))
    THEN LET ks == DigitRun(s)
             kt == DigitRun(t)
             vs == DecimalValue(SubSeq(s, 1, ks))
             vt == DecimalValue(SubSeq(t, 1, kt))
         IN  IF vs # vt THEN Sign(vs - vt)
             ELSE LocaleCompare(SubSeq(s, ks + 1, Len(s)),
                                SubSeq(t, kt + 1, Len(t)))
  ELSE LET ws == IF IsDigit(Head(s)) THEN DigitWeight ELSE PrimaryWeight(Head(s))
           wt == IF IsDigit(Head(t)) THEN DigitWeight ELSE PrimaryWeight(Head(t))
       IN  IF ws # wt THEN Sign(ws - wt)
           ELSE LocaleCompare(Tail(s), Tail(t))

\* compare(a, b): a Date counts as its time value, null and undefined come
\* first, two numbers are subtracted, anything else is collated as strings.
compare(a, b) ==
  LET A == IF a.t = "Date" THEN [t |-> "number", s |-> << >>, n |-> a.n] ELSE a
      B == IF b.t = "Date" THEN [t |-> "number", s |-> << >>, n |-> b.n] ELSE b
  IN  IF A.t = "undefined" /\ B.t = "undefined" THEN Finite(0)
      ELSE IF A.t = "undefined" THEN Finite(-1)
      ELSE IF B.t = "undefined" THEN Finite(1)
      ELSE IF A.t = "number" /\ B.t = "number" THEN NumMinus(A.n, B.n)
      ELSE Finite(LocaleCompare(StringOf(A), StringOf(B)))

\* The value getComparator hands to compare for a record.
SortValue(pub, orderBy) ==
  CASE orderBy = "DP"     -> DateObject(NewDate(pub.DP))
    [] orderBy = "Title"  -> Plain(Str(pub.Title))
    [] orderBy = "pmid"   -> Plain(pub.pmid)
    [] orderBy = "pmc_id" -> Plain(pub.pmc_id)

\* getComparator(order, orderBy)(a, b)
getComparator(order, orderBy, a, b) ==
  CHOOSE c \in { IF order = "asc" THEN cmp ELSE NumNegate(cmp) :
                   cmp \in { compare(va, vb) :
                               va \in { SortValue(a, orderBy) },
                               vb \in { SortValue(b, orderBy) } } } : TRUE

\* The comparator stableSort sorts the [el, i] pairs with:
\* cmp(a[0], b[0]) || a[1] - b[1], where NaN and 0 are falsy.
PairCompare(order, orderBy, x, y) ==
  CHOOSE n \in { IF c.nan \/ c.v = 0 THEN x.i - y.i ELSE c.v :
                   c \in { getComparator(order, orderBy, x.el, y.el) } } : TRUE

\* arr.map((el, i) => [el, i])
Decorate(arr) == [k \in DOMAIN arr |-> [el |-> arr[k], i |-> k - 1]]

\* .map(([el]) => el)
Undecorate(pairs) == [k \in DOMAIN pairs |-> pairs[k].el]

InsertAt(q, k, x) == SubSeq(q, 1, k - 1) \o << x >> \o SubSeq(q, k, Len(q))

\* Array.prototype.sort by insertion from the right: x goes after the last
\* element of the sorted prefix that the comparator does not put after it.
RECURSIVE InsertFromRight(_, _, _, _)
InsertFromRight(order, orderBy, sorted, x) ==
  IF sorted = << >> THEN << x >>
  ELSE IF PairCompare(order, orderBy, sorted[Len(sorted)], x) <= 0
    THEN Append(sorted, x)
  ELSE Append(InsertFromRight(order, orderBy,
                              SubSeq(sorted, 1, Len(sorted) - 1), x),
              sorted[Len(sorted)])

RECURSIVE InsertionSort(_, _, _, _)
InsertionSort(order, orderBy, pairs, n) ==
  IF n = 0 THEN << >>
  ELSE InsertFromRight(order, orderBy,
                       InsertionSort(order, orderBy, pairs, n - 1), pairs[n])

\* The length of the run the array starts with: weakly ascending, or strictly
\* descending (descending is TRUE), as the comparator sees neighbours.
RECURSIVE RunLength(_, _, _, _, _)
RunLength(order, orderBy, pairs, descending, k) ==
  IF k >= Len(pairs) THEN k
  ELSE LET o == PairCompare(order, orderBy, pairs[k + 1], pairs[k])
       IN  IF (descending /\ o >= 0) \/ (~descending /\ o < 0) THEN k
           ELSE RunLength(order, orderBy, pairs, descending, k + 1)

\* The insertion point of pivot in sorted[left+1 .. right] by bisection.
RECURSIVE Bisect(_, _, _, _, _, _)
Bisect(order, orderBy, sorted, pivot, left, right) ==
  IF left >= right THEN left
  ELSE LET mid == left + ((right - left) \div 2)
       IN  IF PairCompare(order, orderBy, pivot, sorted[mid + 1]) < 0
             THEN Bisect(order, orderBy, sorted, pivot, left, mid)
             ELSE Bisect(order, orderBy, sorted, pivot, mid + 1, right)

RECURSIVE BinaryInsertionSort(_, _, _, _, _)
BinaryInsertionSort(order, orderBy, sorted, pairs, start) ==
  IF start > Len(pairs) THEN sorted
  ELSE LET at == Bisect(order, orderBy, sorted, pairs[start], 0, Len(sorted))
       IN  BinaryInsertionSort(order, orderBy,
                               InsertAt(sorted, at + 1, pairs[start]),
                               pairs, start + 1)

\* The first run made ascending, the rest inserted into it.
InsertAfterRun(order, orderBy, pairs, descending, run) ==
  BinaryInsertionSort(order, orderBy,
                      IF descending THEN Reverse(SubSeq(pairs, 1, run))
                      ELSE SubSeq(pairs, 1, run),
                      pairs, run + 1)

\* The first run counted, given whether it descends.
SortFromRun(order, orderBy, pairs, descending) ==
  InsertAfterRun(order, orderBy, pairs, descending,
                 RunLength(order, orderBy, pairs, descending, 2))

\* Array.prototype.sort on a short array by run detection and binary
\* insertion: the first run is made ascending, the rest is inserted into it.
RunInsertionSort(order, orderBy, pairs) ==
  IF Len(pairs) < 2 THEN pairs
  ELSE SortFromRun(order, orderBy, pairs,
                   PairCompare(order, orderBy, pairs[2], pairs[1]) < 0)

\* The short-array algorithms of Array.prototype.sort in the engines a page
\* runs in: insertion from the right, or run detection and binary insertion.
Engines == {"insertion", "run"}

\* The array Array.prototype.sort leaves in an engine.  With a consistent
\* comparator it is the one sorted order in every engine; with an inconsistent
\* one the order is implementation defined.
ArraySortIn(eng, order, orderBy, pairs) ==
  IF eng = "insertion" THEN InsertionSort(order, orderBy, pairs, Len(pairs))
  ELSE RunInsertionSort(order, orderBy, pairs)

\* stableSort(arr, getComparator(order, orderBy)) in an engine.
stableSortIn(eng, arr, order, orderBy) ==
  Undecorate(ArraySortIn(eng, order, orderBy, Decorate(arr)))

\* Mutant of stableSort: descending is the reversal of the ascending sort.
stableSort_ReversedAscending(arr, order, orderBy) ==
  { IF order = "desc" THEN Reverse(stableSortIn(eng, arr, "asc", orderBy))
    ELSE stableSortIn(eng, arr, "asc", orderBy) : eng \in Engines }

\* The arrays stableSort(arr, getComparator(order, orderBy)) can return.
stableSort(arr, order, orderBy) ==
  { stableSortIn(eng, arr, order, orderBy) : eng \in Engines }

(***************************************************************************)
(* State                                                                   *)
(***************************************************************************)

VARIABLES
  argItem,       \* the record a copy of matchesFilters is called with
  argFilters,    \* the criteria it is called with
  ret,           \* per copy: whether it was called, and the outcome
  publications,  \* MainView: the bundled dataset
  filters,       \* MainView: the committed criteria
  filtered,      \* MainView: the outcome of the filtered memo
  engine,        \* the JavaScript engine the page runs in
  component,     \* which MainView is mounted: that of mainView.tsx or of part_001
  orderBy,       \* MainView: the sort key
  order,         \* MainView: the sort direction
  rows,          \* MainView: the outcome of the rows memo
  clicked,       \* the last click on a column header, with the sort state it met
  page,          \* MainView of mainView.tsx: the page of the table, from 0
  rowsPerPage,   \* MainView of mainView.tsx: the rows on a page
  surface,       \* which filter input surface is in use: SearchBar or SearchDialog
  draft,         \* the draft criteria of the surface
  showAdvanced,  \* SearchBar: whether the advanced panel is expanded
  open,          \* MainView of part_001: whether the dialog is open
  argArr,        \* the array stableSort is called with
  argOrder,      \* the direction its comparator is made for
  argOrderBy,    \* the field its comparator is made for
  sortRet,       \* whether stableSort was called, and the array it returned
  mounted,       \* the MainView and its SummaryViewer are mounted
  selected,      \* the record of the row clicked last, or none
  viewer,        \* payload, error and loading of SummaryViewer
  fetches,       \* the requests of SummaryViewer in flight, in issue order
  live,          \* liveSummary, liveError and liveLoading of MainView
  timers,        \* the pending timers of fetchLiveSummary, in issue order
  treeFile,      \* which SubjectTree is mounted: that of SubjectTree.tsx or of temp.tsx
  cards,         \* SubjectTree: per node of the data, its card if one is mounted
  NEXT_ID,       \* SubjectTree: the module's counter of card ids
  elRef,         \* SubjectTree: the ids registered with an element
  edgesFrom,     \* SubjectTree.tsx: edgesFromRef, the map from parent to children
  edgesTo,       \* SubjectTree.tsx: edgesToRef, the map from child to parents
  edgesRef,      \* temp.tsx: the list of edges
  called,        \* the registry operation called last
  controls,      \* SummaryViewer: the controls prop
  summaryData,   \* SummaryViewer: the payload whose text is typed
  playing,       \* SummaryViewer: playing
  cursor,        \* useTypewriter of the summary: cursor
  bulletIndex,   \* SummaryViewer: bulletIndex
  typer,         \* the mounted BulletTyper: its bullet and its cursor, or none
  finished,      \* the bullets whose BulletTyper called onDone for this payload
  timelineItems, \* SimpleTimeline: the items prop
  positions      \* SimpleTimeline: whether positions was computed, and its value

callVars == << argItem, argFilters, ret >>

viewVars ==
  << publications, filters, filtered, engine, component, orderBy, order, rows,
     clicked, page, rowsPerPage >>

sortVars == << argArr, argOrder, argOrderBy, sortRet >>

searchVars == << surface, draft, showAdvanced, open >>

\* The variables of the other components.
summaryVars == << mounted, selected, viewer, fetches, live, timers >>

\* All but one component's variables, for the frames of that component.
treeVars ==
  << treeFile, cards, NEXT_ID, elRef, edgesFrom, edgesTo, edgesRef, called >>

\* The variables of the components modelled further down.
typingVars ==
  << controls, summaryData, playing, cursor, bulletIndex, typer, finished >>

timelineVars == << timelineItems, positions >>

moreVars == << treeVars, typingVars, timelineVars >>

otherVars == << sortVars, summaryVars, moreVars >>

restVars == << sortVars, searchVars, summaryVars, moreVars >>

\* The variables of the table, its filters and its summary panel.
pageVars == << callVars, viewVars, sortVars, searchVars, summaryVars >>

\* All but one of the further components' variables.
notTreeVars == << pageVars, typingVars, timelineVars >>

notTypingVars == << pageVars, treeVars, timelineVars >>

notTimelineVars == << pageVars, treeVars, typingVars >>

vars == << callVars, viewVars, restVars >>

NotSorted == [called |-> FALSE, rows |-> << >>]

Sorted(out) == [called |-> TRUE, rows |-> out]

\* No call of stableSort is under way.
SortIdle ==
  /\ argArr = << >>
  /\ argOrder = "asc"
  /\ argOrderBy = "Title"
  /\ sortRet = NotSorted

\* The filter input surface as mounted: the draft starts as the committed
\* criteria, the advanced panel collapsed, the dialog closed.
SearchIdle ==
  /\ surface = "SearchBar"
  /\ draft = DefaultFilters
  /\ showAdvanced = FALSE
  /\ open = FALSE

\* The other components are not in use.
\* null
Null == [null |-> TRUE]

\* No row was clicked: selected is null, no request was issued.
SummaryIdle ==
  /\ mounted = TRUE
  /\ selected = Null
  /\ viewer = [payload |-> Null, error |-> Null, loading |-> FALSE]
  /\ fetches = << >>
  /\ live = [summary |-> Null, error |-> Null, loading |-> FALSE]
  /\ timers = << >>

NoCall == [op |-> "none", args |-> << >>]

\* No SubjectTree is mounted.
TreeIdle ==
  /\ treeFile = "SubjectTree.tsx"
  /\ cards = << >>
  /\ NEXT_ID = 1
  /\ elRef = {}
  /\ edgesFrom = << >>
  /\ edgesTo = << >>
  /\ edgesRef = << >>
  /\ called = NoCall

\* SummaryViewer as mounted, with no payload.
TypingIdle ==
  /\ controls = FALSE
  /\ summaryData = Null
  /\ playing = TRUE
  /\ cursor = 0
  /\ bulletIndex = 0
  /\ typer = Null
  /\ finished = {}

NotComputed == [called |-> FALSE, ys |-> << >>]

\* No timeline is shown.
TimelineIdle ==
  /\ timelineItems = << >>
  /\ positions = NotComputed

MoreIdle == TreeIdle /\ TypingIdle /\ TimelineIdle

RestIdle == SortIdle /\ SearchIdle /\ SummaryIdle /\ MoreIdle

Copies == {"mainView", "searchBar", "part_000", "part_001"}

NotCalled == [called |-> FALSE, threw |-> FALSE, val |-> FALSE]

Called(outcome) ==
  [called |-> TRUE, threw |-> outcome.threw, val |-> outcome.val]

Components == {"mainView.tsx", "part_001"}

NoClick ==
  [is |-> FALSE, property |-> "Title", orderBy |-> "Title", order |-> "asc"]

Click(property, by, dir) ==
  [is |-> TRUE, property |-> property, orderBy |-> by, order |-> dir]

\* The filtered memo of the mounted MainView.
Filtered(comp, list, crit) ==
  IF comp = "part_001" THEN Part001Filtered(list, crit)
  ELSE MainViewFiltered(list, crit)

\* The rows memo: stableSort(filtered, getComparator(order, orderBy)); there
\* are no rows when the filter of the same render threw.
RowsOf(flt, dir, by) ==
  IF flt.threw THEN [threw |-> TRUE, val |-> << >>]
  ELSE [threw |-> FALSE, val |-> stableSortIn(engine, flt.val, dir, by)]

\* useState(20) of rowsPerPage.
DefaultRowsPerPage == 20

\* A MainView as mounted: default criteria, sorted by Title ascending, the
\* memos computed by the first render.
Mounted(comp, list) ==
  /\ component = comp
  /\ publications = list
  /\ filters = DefaultFilters
  /\ filtered = Filtered(comp, list, DefaultFilters)
  /\ orderBy = "Title"
  /\ order = "asc"
  /\ rows = RowsOf(filtered, "asc", "Title")
  /\ clicked = NoClick
  /\ page = 0
  /\ rowsPerPage = DefaultRowsPerPage

\* MainView of mainView.tsx as mounted.
MainViewMounted(list) == Mounted("mainView.tsx", list)

\* A render threw: React has unmounted the tree and no handler runs again.
Crashed == filtered.threw

\* A state update of MainView and the render that recomputes the memos.
Render(nextFilters, nextOrder, nextOrderBy) ==
  /\ filters' = nextFilters
  /\ order' = nextOrder
  /\ orderBy' = nextOrderBy
  /\ filtered' = Filtered(component, publications, nextFilters)
  /\ rows' = RowsOf(filtered', nextOrder, nextOrderBy)
  /\ UNCHANGED << publications, engine, component, page, rowsPerPage >>

(***************************************************************************)
(* SpecFilter: the copies of matchesFilters applied to one record and one  *)
(* criteria object                                                         *)
(***************************************************************************)

InitFilter ==
  /\ \E focus \in Focuses :
       /\ argItem \in Items(focus)
       /\ argFilters \in Criteria(focus)
  /\ ret = [c \in Copies |-> NotCalled]
  /\ engine = "run"
  /\ MainViewMounted(<< >>)
  /\ RestIdle

CallMainView ==
  /\ ret' = [ret EXCEPT !["mainView"] =
               Called(matchesFilters(argItem, argFilters))]
  /\ UNCHANGED << argItem, argFilters, viewVars, restVars >>

CallSearchBar ==
  /\ ret' = [ret EXCEPT !["searchBar"] =
               Called(searchBar_matchesFilters(argItem, argFilters))]
  /\ UNCHANGED << argItem, argFilters, viewVars, restVars >>

NextFilter == CallMainView \/ CallSearchBar

SpecFilter == InitFilter /\ [][NextFilter]_vars

(***************************************************************************)
(* SpecMainView: MainView of mainView.tsx over a dataset                   *)
(***************************************************************************)

\* The rows stay sorted by Title, on which the engines agree.
InitMainView ==
  /\ engine = "run"
  /\ \E list \in Datasets : MainViewMounted(list)
  /\ argItem = BaseItem
  /\ argFilters = DefaultFilters
  /\ ret = [c \in Copies |-> NotCalled]
  /\ RestIdle

\* applyFilters(next) of mainView.tsx, then the render.
applyFilters(next) ==
  /\ ~Crashed /\ component = "mainView.tsx"
  /\ Render(next, order, orderBy)
  /\ UNCHANGED << clicked, callVars, restVars >>

\* clearFilters() of mainView.tsx, then the render.
clearFilters ==
  /\ ~Crashed /\ component = "mainView.tsx"
  /\ Render(DefaultFilters, order, orderBy)
  /\ UNCHANGED << clicked, callVars, restVars >>

NextMainView ==
  \/ \E next \in ViewCriteria : applyFilters(next)
  \/ clearFilters

SpecMainView == InitMainView /\ [][NextMainView]_vars

(***************************************************************************)
(* SpecSort: stableSort with the comparator of a field and a direction     *)
(***************************************************************************)

\* Longest array that is sorted.
MaxRows == 4

\* A record that ties with the first catalogue record on every sort field.
CatalogueTwin ==
  [Title |-> << "a", "l", "p", "h", "a" >>, Link |-> << "d", "o", "i" >>,
   pmid |-> Str(DecimalString(100)), DP |-> JanuaryDay(1),
   AU |-> Undefined, AB |-> Undefined, pmc_id |-> Str(<< "p", "m", "c", "1" >>),
   tags |-> NoArray]

SortPool == Append(Catalogue, CatalogueTwin)

\* The arrays of up to MaxRows distinct records of the pool, in any order.
SortArrays ==
  UNION { { [k \in 1..n |-> SortPool[f[k]]] :
              f \in { g \in [1..n -> DOMAIN SortPool] :
                        \A j, k \in 1..n : j # k => g[j] # g[k] } } :
          n \in 0..MaxRows }

InitSort ==
  /\ argArr \in SortArrays
  /\ argOrder \in Orders
  /\ argOrderBy \in SortFields
  /\ sortRet = NotSorted
  /\ argItem = BaseItem
  /\ argFilters = DefaultFilters
  /\ ret = [c \in Copies |-> NotCalled]
  /\ engine = "run"
  /\ MainViewMounted(<< >>)
  /\ SearchIdle /\ SummaryIdle /\ MoreIdle

\* stableSort(filtered, getComparator(order, orderBy))
CallStableSort ==
  /\ \E out \in stableSort(argArr, argOrder, argOrderBy) :
       sortRet' = Sorted(out)
  /\ UNCHANGED << argArr, argOrder, argOrderBy, callVars, viewVars, searchVars,
                  summaryVars, moreVars >>

NextSort == CallStableSort

SpecSort == InitSort /\ [][NextSort]_vars

(***************************************************************************)
(* SpecTable: the table of a MainView: column headers, apply and clear     *)
(***************************************************************************)

\* The object clearFilters of part_001 commits: the six text and range
\* fields, and no includeTags, includeLogic or excludeTags.
Part001EmptyFilters ==
  [title |-> << >>, link |-> << >>,
   pmidMin |-> Str(<< >>), pmidMax |-> Str(<< >>),
   dateFrom |-> << >>, dateTo |-> << >>,
   includeTags |-> NoArray, includeLogic |-> "undefined",
   excludeTags |-> NoArray]

\* The criteria applied to the table: a PMID bound, a title, an included tag.
TableCriteria ==
  { [DefaultFilters EXCEPT !.pmidMin = Str(DecimalString(150))],
    [DefaultFilters EXCEPT !.title = << "a", "l" >>],
    [DefaultFilters EXCEPT !.includeTags = Arr(<< "genomics" >>)] }

Flip(dir) == IF dir = "asc" THEN "desc" ELSE "asc"

\* A header's onClick in mainView.tsx: setOrderBy(property), then the render.
setOrderBy(property) ==
  /\ ~Crashed /\ component = "mainView.tsx"
  /\ Render(filters, order, property)
  /\ clicked' = Click(property, orderBy, order)
  /\ UNCHANGED << callVars, restVars >>

\* Mutant of handleSort: a new sort key keeps the direction.
handleSort_KeepsDirection(property) ==
  /\ ~Crashed /\ component = "part_001"
  /\ IF orderBy = property THEN Render(filters, Flip(order), orderBy)
     ELSE Render(filters, order, property)
  /\ clicked' = Click(property, orderBy, order)
  /\ UNCHANGED << callVars, restVars >>

\* A header's onClick in part_001: handleSort(property)(), then the render.
handleSort(property) ==
  /\ ~Crashed /\ component = "part_001"
  /\ IF orderBy = property THEN Render(filters, Flip(order), orderBy)
     ELSE Render(filters, "asc", property)
  /\ clicked' = Click(property, orderBy, order)
  /\ UNCHANGED << callVars, restVars >>

\* applyFilters(next) of part_001: setFilters(next); setOpen(false).
part001_applyFilters(next) ==
  /\ ~Crashed /\ component = "part_001"
  /\ Render(next, order, orderBy)
  /\ open' = FALSE
  /\ UNCHANGED << clicked, callVars, otherVars, surface, draft, showAdvanced >>

\* clearFilters() of part_001: setFilters(empty); setOpen(false).
part001_clearFilters ==
  /\ ~Crashed /\ component = "part_001"
  /\ Render(Part001EmptyFilters, order, orderBy)
  /\ open' = FALSE
  /\ UNCHANGED << clicked, callVars, otherVars, surface, draft, showAdvanced >>

InitTable ==
  /\ engine \in Engines
  /\ \E comp \in Components, list \in Datasets : Mounted(comp, list)
  /\ argItem = BaseItem
  /\ argFilters = DefaultFilters
  /\ ret = [c \in Copies |-> NotCalled]
  /\ RestIdle

NextTable ==
  \/ \E property \in SortFields : setOrderBy(property)
  \/ \E property \in SortFields : handleSort(property)
  \/ \E next \in TableCriteria : applyFilters(next)
  \/ \E next \in TableCriteria : part001_applyFilters(next)
  \/ clearFilters
  \/ part001_clearFilters

SpecTable == InitTable /\ [][NextTable]_vars

(***************************************************************************)
(* SpecSearch: the input surfaces, SearchBar and SearchDialog, in a        *)
(* MainView                                                                *)
(***************************************************************************)

\* The surfaces and the MainView that holds their state: both MainViews
\* render SearchBar; part_001 keeps open, openDialog and closeDialog for
\* SearchDialog.
Surfaces ==
  { << "mainView.tsx", "SearchBar" >>, << "part_001", "SearchBar" >>,
    << "part_001", "SearchDialog" >> }

\* The fields typed into through onChange(key), and what is typed: a title,
\* a lower PMID bound, a first day; or the field is emptied.
TypedKeys == {"title", "pmidMin", "dateFrom"}

Typed(key) ==
  CASE key = "title" -> { << >>, << "a", "l" >> }
    [] key = "pmidMin" -> { Str(<< >>), Str(DecimalString(150)) }
    [] key = "dateFrom" -> { << >>, JanuaryDay(2) }

\* The values picked in the two tag Autocompletes.
PickedTags == { Arr(<< >>), Arr(<< "genomics" >>) }

\* The datasets behind the surfaces: none, or the first catalogue records.
SearchDatasets == { << >>, SubSeq(Catalogue, 1, MaxRecords) }

\* setDraft(next): only the draft of the surface changes.
setDraft(next) ==
  /\ draft' = next
  /\ UNCHANGED << viewVars, callVars, otherVars, surface, showAdvanced, open >>

\* The onApply prop, applyFilters of the MainView: setFilters(next), and
\* setOpen(false) in part_001 (open is never TRUE in mainView.tsx).
onApply(next) ==
  /\ Render(next, order, orderBy)
  /\ open' = FALSE

\* The onClear prop, clearFilters of the MainView.
onClear ==
  /\ Render(IF component = "part_001" THEN Part001EmptyFilters
            ELSE DefaultFilters, order, orderBy)
  /\ open' = FALSE

\* The draft handleClear of SearchBar sets.
SearchBarReset ==
  [title |-> << >>, link |-> << >>,
   pmidMin |-> Undefined, pmidMax |-> Undefined,
   dateFrom |-> << >>, dateTo |-> << >>,
   includeTags |-> Arr(<< >>), excludeTags |-> Arr(<< >>),
   includeLogic |-> "AND"]

\* Mutant of SearchBar_onChange: every keystroke is committed.
SearchBar_onChange_Commits(key, value) ==
  /\ ~Crashed /\ surface = "SearchBar"
  /\ key = "title" \/ showAdvanced
  /\ draft' = [draft EXCEPT ![key] = value]
  /\ onApply(draft')
  /\ UNCHANGED << clicked, callVars, otherVars, surface, showAdvanced >>

\* onChange(key)(e) of SearchBar; all fields but the title are in the
\* advanced panel, unmounted while collapsed.
SearchBar_onChange(key, value) ==
  /\ ~Crashed /\ surface = "SearchBar"
  /\ key = "title" \/ showAdvanced
  /\ setDraft([draft EXCEPT ![key] = value])

\* The onChange of the Include Tags Autocomplete.
SearchBar_includeTags(newValue) ==
  /\ ~Crashed /\ surface = "SearchBar" /\ showAdvanced
  /\ setDraft([draft EXCEPT !.includeTags = newValue])

\* The onChange of the include logic RadioGroup.
SearchBar_includeLogic(value) ==
  /\ ~Crashed /\ surface = "SearchBar" /\ showAdvanced
  /\ setDraft([draft EXCEPT !.includeLogic = value])

\* The onChange of the Exclude Tags Autocomplete.
SearchBar_excludeTags(newValue) ==
  /\ ~Crashed /\ surface = "SearchBar" /\ showAdvanced
  /\ setDraft([draft EXCEPT !.excludeTags = newValue])

\* handleKeyDown of SearchBar with Enter, in the title field.
SearchBar_handleKeyDown ==
  /\ ~Crashed /\ surface = "SearchBar"
  /\ UNCHANGED << clicked, callVars, otherVars, surface, draft, showAdvanced >>
  /\ onApply(draft)

\* The Search button of SearchBar.
SearchBar_Search ==
  /\ ~Crashed /\ surface = "SearchBar"
  /\ UNCHANGED << clicked, callVars, otherVars, surface, draft, showAdvanced >>
  /\ onApply(draft)

\* The Apply button of the advanced panel.
SearchBar_Apply ==
  /\ ~Crashed /\ surface = "SearchBar" /\ showAdvanced
  /\ UNCHANGED << clicked, callVars, otherVars, surface, draft, showAdvanced >>
  /\ onApply(draft)

\* The IconButton of SearchBar: setShowAdvanced((p) => !p).
SearchBar_toggleAdvanced ==
  /\ ~Crashed /\ surface = "SearchBar"
  /\ showAdvanced' = ~showAdvanced
  /\ UNCHANGED << viewVars, callVars, otherVars, surface, draft, open >>

\* handleClear of SearchBar: setDraft(reset); onClear().
SearchBar_handleClear ==
  /\ ~Crashed /\ surface = "SearchBar" /\ showAdvanced
  /\ draft' = SearchBarReset
  /\ UNCHANGED << clicked, callVars, otherVars, surface, showAdvanced >>
  /\ onClear

\* openDialog of part_001, then the effect of SearchDialog:
\* if (open) setDraft(value).
openDialog ==
  /\ ~Crashed /\ surface = "SearchDialog" /\ ~open
  /\ open' = TRUE
  /\ draft' = filters
  /\ UNCHANGED << viewVars, callVars, otherVars, surface, showAdvanced >>

\* The onClose prop, closeDialog of part_001: Cancel, Escape, the backdrop.
closeDialog ==
  /\ ~Crashed /\ surface = "SearchDialog" /\ open
  /\ open' = FALSE
  /\ UNCHANGED << viewVars, callVars, otherVars, surface, draft, showAdvanced >>

\* onChange(key)(e) of SearchDialog.
SearchDialog_onChange(key, value) ==
  /\ ~Crashed /\ surface = "SearchDialog" /\ open
  /\ setDraft([draft EXCEPT ![key] = value])

\* handleKeyDown of SearchDialog with Enter.
SearchDialog_handleKeyDown ==
  /\ ~Crashed /\ surface = "SearchDialog" /\ open
  /\ UNCHANGED << clicked, callVars, otherVars, surface, draft, showAdvanced >>
  /\ onApply(draft)

\* The Apply button of SearchDialog.
SearchDialog_Apply ==
  /\ ~Crashed /\ surface = "SearchDialog" /\ open
  /\ UNCHANGED << clicked, callVars, otherVars, surface, draft, showAdvanced >>
  /\ onApply(draft)

\* The Clear button of SearchDialog: onClear().
SearchDialog_Clear ==
  /\ ~Crashed /\ surface = "SearchDialog" /\ open
  /\ UNCHANGED << clicked, callVars, otherVars, surface, draft, showAdvanced >>
  /\ onClear

\* The rows stay sorted by Title, on which the engines agree.
InitSearch ==
  /\ engine = "run"
  /\ \E host \in Surfaces, list \in SearchDatasets :
       /\ Mounted(host[1], list)
       /\ surface = host[2]
  /\ draft = filters
  /\ showAdvanced = FALSE
  /\ open = FALSE
  /\ argItem = BaseItem
  /\ argFilters = DefaultFilters
  /\ ret = [c \in Copies |-> NotCalled]
  /\ SortIdle /\ SummaryIdle /\ MoreIdle

NextSearch ==
  \/ \E key \in TypedKeys : \E value \in Typed(key) :
       SearchBar_onChange(key, value)
  \/ \E newValue \in PickedTags : SearchBar_includeTags(newValue)
  \/ \E value \in {"AND", "OR"} : SearchBar_includeLogic(value)
  \/ \E newValue \in PickedTags : SearchBar_excludeTags(newValue)
  \/ SearchBar_handleKeyDown
  \/ SearchBar_Search
  \/ SearchBar_Apply
  \/ SearchBar_toggleAdvanced
  \/ SearchBar_handleClear
  \/ openDialog
  \/ closeDialog
  \/ \E key \in TypedKeys : \E value \in Typed(key) :
       SearchDialog_onChange(key, value)
  \/ SearchDialog_handleKeyDown
  \/ SearchDialog_Apply
  \/ SearchDialog_Clear

SpecSearch == InitSearch /\ [][NextSearch]_vars

(***************************************************************************)
(* SpecSummary: row selection and the two summary requests it issues       *)
(***************************************************************************)

\* The requests and timers a selection may add to.
MaxInFlight == 2

\* The JSON of a summary fetched for a title; the record setLiveSummary is
\* given for a publication.
SummaryFor(title) == [null |-> FALSE, title |-> title]

LiveSummaryFor(pub) == [null |-> FALSE, pub |-> pub]

\* How a request ends: a 2xx response with JSON, another response, or no
\* response at all.
Outcomes == {"ok", "http", "network"}

\* e.message of the error a failed request throws: `HTTP ${r.status}`, or the
\* message of the TypeError of fetch.
ErrorMessage(outcome) ==
  [null |-> FALSE,
   message |-> IF outcome = "http" THEN "HTTP 500" ELSE "Failed to fetch"]

\* The title prop of SummaryViewer: selected?.Title.
TitleProp(sel) == IF sel = Null THEN Undefined ELSE Str(sel.Title)

\* The cleanup of the effect that issued a request: cancelled = true.
RECURSIVE CancelAll(_)
CancelAll(reqs) ==
  IF reqs = << >> THEN << >>
  ELSE << [Head(reqs) EXCEPT !.cancelled = TRUE] >> \o CancelAll(Tail(reqs))

RemoveAt(seq, i) == SubSeq(seq, 1, i - 1) \o SubSeq(seq, i + 1, Len(seq))

\* TableRow onClick: setSelected(pub); fetchLiveSummary(pub) up to its await;
\* then, if the title prop changed, the cleanup and the effect of
\* SummaryViewer.
RowClick(pub) ==
  /\ mounted /\ ~Crashed
  /\ Len(fetches) < MaxInFlight /\ Len(timers) < MaxInFlight
  /\ selected' = pub
  /\ live' = [summary |-> Null, error |-> Null, loading |-> TRUE]
  /\ timers' = Append(timers, pub)
  /\ IF TitleProp(pub) = TitleProp(selected)
       THEN UNCHANGED << viewer, fetches >>
     ELSE IF pub.Title = << >>
       THEN /\ fetches' = CancelAll(fetches)
            /\ UNCHANGED viewer
     ELSE /\ fetches' = Append(CancelAll(fetches),
                               [title |-> pub.Title, cancelled |-> FALSE])
          /\ viewer' = [payload |-> Null, error |-> Null, loading |-> TRUE]
  /\ UNCHANGED << mounted, viewVars, callVars, sortVars, searchVars, moreVars >>

\* Mutant of FetchSettles: a failure is swallowed, no error is set.
FetchSettles_ErrorSwallowed(i, outcome) ==
  /\ i \in DOMAIN fetches
  /\ fetches' = RemoveAt(fetches, i)
  /\ viewer' = IF fetches[i].cancelled THEN viewer
               ELSE IF outcome = "ok"
                 THEN [viewer EXCEPT !.payload = SummaryFor(fetches[i].title),
                                     !.loading = FALSE]
                 ELSE [viewer EXCEPT !.loading = FALSE]
  /\ UNCHANGED << mounted, selected, live, timers, viewVars, callVars,
                  sortVars, searchVars, moreVars >>

\* A request of SummaryViewer settles, in any order with the others: then or
\* catch, and finally, each guarded by the cancelled flag of its effect.
FetchSettles(i, outcome) ==
  /\ i \in DOMAIN fetches
  /\ fetches' = RemoveAt(fetches, i)
  /\ viewer' = IF fetches[i].cancelled THEN viewer
               ELSE IF outcome = "ok"
                 THEN [viewer EXCEPT !.payload = SummaryFor(fetches[i].title),
                                     !.loading = FALSE]
                 ELSE [viewer EXCEPT !.error = ErrorMessage(outcome),
                                     !.loading = FALSE]
  /\ UNCHANGED << mounted, selected, live, timers, viewVars, callVars,
                  sortVars, searchVars, moreVars >>

\* The oldest timer of fetchLiveSummary fires: setLiveSummary of its
\* publication, then setLiveLoading(false).  React drops the updates of an
\* unmounted component.
TimerFires ==
  /\ timers # << >>
  /\ timers' = Tail(timers)
  /\ live' = IF mounted
               THEN [live EXCEPT !.summary = LiveSummaryFor(Head(timers)),
                                 !.loading = FALSE]
               ELSE live
  /\ UNCHANGED << mounted, selected, viewer, fetches, viewVars, callVars,
                  sortVars, searchVars, moreVars >>

\* The page is left: MainView and SummaryViewer unmount, the cleanup runs.
Unmount ==
  /\ mounted
  /\ mounted' = FALSE
  /\ fetches' = CancelAll(fetches)
  /\ UNCHANGED << selected, viewer, live, timers, viewVars, callVars,
                  sortVars, searchVars, moreVars >>

\* A bundled record whose Title is the empty string.
Untitled ==
  [Title |-> << >>, Link |-> << "d", "o", "i" >>,
   pmid |-> Num(400), DP |-> JanuaryDay(3),
   AU |-> Undefined, AB |-> Undefined, pmc_id |-> Undefined,
   tags |-> NoArray]

\* The datasets whose rows are clicked: those of the table, and one with an
\* untitled record.
SummaryDatasets == Datasets \cup { << Catalogue[1], Untitled >> }

\* The rows stay sorted by Title, on which the engines agree.
InitSummary ==
  /\ engine = "run"
  /\ \E list \in SummaryDatasets : MainViewMounted(list)
  /\ argItem = BaseItem
  /\ argFilters = DefaultFilters
  /\ ret = [c \in Copies |-> NotCalled]
  /\ RestIdle

NextSummary ==
  \/ \E k \in DOMAIN rows.val : RowClick(rows.val[k])
  \/ \E i \in 1..MaxInFlight, outcome \in Outcomes : FetchSettles(i, outcome)
  \/ TimerFires
  \/ Unmount

SpecSummary == InitSummary /\ [][NextSummary]_vars

(***************************************************************************)
(* SpecPage: the pages of the results table of mainView.tsx                *)
(***************************************************************************)

\* rowsPerPageOptions of TablePagination.
RowsPerPageOptions == {10, 20, 50}

\* A bundled record: numeric PMID, ISO date, one tag by parity.
PagedRecord(k) ==
  [Title |-> << "P" >> \o DecimalString(k),
   Link |-> << "P", "M", "C" >> \o DecimalString(k),
   pmid |-> Num(100 * k), DP |-> JanuaryDay(k),
   AU |-> Undefined, AB |-> Undefined, pmc_id |-> Undefined,
   tags |-> Arr(IF k % 2 = 1 THEN << "genomics" >> ELSE << "review" >>)]

\* A dataset that does not fit on the shortest page: one record more than
\* the least rows-per-page option.
PagedDataset == [k \in 1..11 |-> PagedRecord(k)]

\* The criteria applied to it: all but the first record, the first three,
\* the odd ones, none.
PageCriteria ==
  { [DefaultFilters EXCEPT !.pmidMin = Str(DecimalString(150))],
    [DefaultFilters EXCEPT !.pmidMax = Str(DecimalString(300))],
    [DefaultFilters EXCEPT !.includeTags = Arr(<< "genomics" >>)],
    [DefaultFilters EXCEPT !.title = << "z", "z" >>] }

\* rows.slice(page * rowsPerPage, (page + 1) * rowsPerPage)
Slice(arr, from, to) ==
  IF from >= Len(arr) THEN << >>
  ELSE SubSeq(arr, from + 1, IF to > Len(arr) THEN Len(arr) ELSE to)

paginatedRows == Slice(rows.val, page * rowsPerPage, (page + 1) * rowsPerPage)

\* The next-page button of TablePagination, enabled while rows follow the
\* page: onPageChange(event, page + 1).
NextPage ==
  /\ ~Crashed /\ component = "mainView.tsx"
  /\ (page + 1) * rowsPerPage < Len(rows.val)
  /\ page' = page + 1
  /\ UNCHANGED << publications, filters, filtered, engine, component, orderBy,
                  order, rows, clicked, rowsPerPage, callVars, restVars >>

\* The previous-page button, enabled on every page but the first:
\* onPageChange(event, page - 1).
PreviousPage ==
  /\ ~Crashed /\ component = "mainView.tsx"
  /\ page > 0
  /\ page' = page - 1
  /\ UNCHANGED << publications, filters, filtered, engine, component, orderBy,
                  order, rows, clicked, rowsPerPage, callVars, restVars >>

\* onRowsPerPageChange: setRowsPerPage(parseInt(value, 10)); setPage(0).
onRowsPerPageChange(value) ==
  /\ ~Crashed /\ component = "mainView.tsx"
  /\ rowsPerPage' = value
  /\ page' = 0
  /\ UNCHANGED << publications, filters, filtered, engine, component, orderBy,
                  order, rows, clicked, callVars, restVars >>

InitPage ==
  /\ engine \in Engines
  /\ MainViewMounted(PagedDataset)
  /\ argItem = BaseItem
  /\ argFilters = DefaultFilters
  /\ ret = [c \in Copies |-> NotCalled]
  /\ RestIdle

NextPageSpec ==
  \/ \E next \in PageCriteria : applyFilters(next)
  \/ clearFilters
  \/ \E property \in SortFields : setOrderBy(property)
  \/ NextPage
  \/ PreviousPage
  \/ \E value \in RowsPerPageOptions : onRowsPerPageChange(value)

SpecPage == InitPage /\ [][NextPageSpec]_vars

(***************************************************************************)
(* The contract of the filter engine, stated on the data                   *)
(***************************************************************************)

TagSet(arr) == { arr[i] : i \in DOMAIN arr }

\* The tags on a record; a record without a tag list carries none.
RecordTags(item) == IF item.tags.def THEN TagSet(item.tags.a) ELSE {}

\* A bound is set when it is present and not blank.
BoundSet(b) == b.t = "string" /\ b.s # << >>

Fold(c) == ToLowerCase(<< c >>)[1]

\* crit occurs in text when letter case is ignored.
ContainsFolded(text, crit) ==
  \E k \in 0..(Len(text) - Len(crit)) :
    \A j \in 1..Len(crit) : Fold(text[k + j]) = Fold(crit[j])

TitleHolds(item, c) == c.title = << >> \/ ContainsFolded(item.Title, c.title)

LinkHolds(item, c) == c.link = << >> \/ ContainsFolded(item.Link, c.link)

\* Number(pmid) is a number within every bound that is set.
PmidHolds(item, c) ==
  LET p  == ToNumber(item.pmid)
      lo == ToNumber(c.pmidMin)
      hi == ToNumber(c.pmidMax)
  IN  /\ BoundSet(c.pmidMin) => ~p.nan /\ ~lo.nan /\ lo.v <= p.v
      /\ BoundSet(c.pmidMax) => ~p.nan /\ ~hi.nan /\ p.v <= hi.v

\* The parsed date lies between the parsed bounds that are set.
DateHolds(item, c) ==
  LET d    == NewDate(item.DP)
      from == NewDate(c.dateFrom)
      to   == NewDate(c.dateTo)
  IN  /\ c.dateFrom # << >> => ~d.nan /\ ~from.nan /\ from.v <= d.v
      /\ c.dateTo # << >> => ~d.nan /\ ~to.nan /\ d.v <= to.v

InclusionHolds(item, c) ==
  \/ TagSet(c.includeTags.a) = {}
  \/ c.includeLogic = "AND" /\ TagSet(c.includeTags.a) \subseteq RecordTags(item)
  \/ c.includeLogic = "OR" /\ TagSet(c.includeTags.a) \cap RecordTags(item) # {}

ExclusionHolds(item, c) == TagSet(c.excludeTags.a) \cap RecordTags(item) = {}

AllButExclusionHold(item, c) ==
  /\ TitleHolds(item, c) /\ LinkHolds(item, c)
  /\ PmidHolds(item, c) /\ DateHolds(item, c)
  /\ InclusionHolds(item, c)

AllSixHold(item, c) == AllButExclusionHold(item, c) /\ ExclusionHolds(item, c)

Parsable(s) == ~NewDate(s).nan

\* The calendar day (UTC) of a parsable date string, in days since the epoch.
CalendarDay(s) == IsoDay(SubSeq(s, 1, 10))

\* The record's calendar day lies between the days of the bounds that are set.
CalendarDayHolds(item, c) ==
  /\ c.dateFrom # << >> => CalendarDay(c.dateFrom) <= CalendarDay(item.DP)
  /\ c.dateTo # << >> => CalendarDay(item.DP) <= CalendarDay(c.dateTo)

InList(rec, list) == \E j \in DOMAIN list : list[j] = rec

(***************************************************************************)
(* Claims                                                                  *)
(***************************************************************************)

C2_PmidRange ==
  /\ ~filtered.threw
  /\ \A i \in DOMAIN publications :
       LET rec == publications[i]
       IN  /\ InList(rec, filtered.val) => PmidHolds(rec, filters)
           /\ filters = [DefaultFilters EXCEPT !.pmidMin = filters.pmidMin,
                                               !.pmidMax = filters.pmidMax]
                => (InList(rec, filtered.val) <=> PmidHolds(rec, filters))
           /\ pmidMatch(rec, filters) = PmidHolds(rec, filters)
           /\ searchBar_pmidMatch(rec, filters) = PmidHolds(rec, filters)

\* C2 witness: both bounds set; a record whose PMID equals the lower bound is
\* listed and a record below it is not.
C2_Witness ==
  /\ BoundSet(filters.pmidMin) /\ BoundSet(filters.pmidMax)
  /\ \E i, j \in DOMAIN publications :
       /\ ToNumber(publications[i].pmid) = ToNumber(filters.pmidMin)
       /\ InList(publications[i], filtered.val)
       /\ ToNumber(publications[j].pmid).v < ToNumber(filters.pmidMin).v
       /\ ~InList(publications[j], filtered.val)

\* C3 (as claimed): with parsable dates, a record is accepted exactly when its
\* calendar day lies between the days of the bounds, whatever its time of day
\* (all other constraints holding).
C3_CalendarDaySemantics ==
  /\ ret["mainView"].called
  /\ Parsable(argItem.DP)
  /\ argFilters.dateFrom = << >> \/ Parsable(argFilters.dateFrom)
  /\ argFilters.dateTo = << >> \/ Parsable(argFilters.dateTo)
  /\ TitleHolds(argItem, argFilters) /\ LinkHolds(argItem, argFilters)
  /\ PmidHolds(argItem, argFilters)
  /\ InclusionHolds(argItem, argFilters) /\ ExclusionHolds(argItem, argFilters)
  => ret["mainView"].val = CalendarDayHolds(argItem, argFilters)

\* C4: the inclusion constraint holds when the include-set is empty; else
\* under AND exactly when every included tag is on the record, and under OR
\* exactly when at least one is.  A record is never accepted against it.
C4_TagInclusion ==
  ret["mainView"].called =>
    /\ includeMatch(argItem, argFilters) = InclusionHolds(argItem, argFilters)
    /\ ret["mainView"].val => InclusionHolds(argItem, argFilters)

\* C4 witness: two tags included, the record carries exactly one of them, the
\* policy is OR and the call has accepted the record.
C4_Witness ==
  /\ ret["mainView"].called /\ ret["mainView"].val
  /\ argFilters.includeLogic = "OR"
  /\ Cardinality(TagSet(argFilters.includeTags.a)) = 2
  /\ Cardinality(TagSet(argFilters.includeTags.a) \cap RecordTags(argItem)) = 1

\* C5: no record of the filtered list carries an excluded tag, whatever the
\* include-set and policy; with an empty exclude-set the list is exactly the
\* records that satisfy the other five constraints.
C5_ExclusionDominates ==
  /\ ~filtered.threw
  /\ \A j \in DOMAIN filtered.val :
       TagSet(filters.excludeTags.a) \cap RecordTags(filtered.val[j]) = {}
  /\ filters.excludeTags.a = << >> =>
       filtered.val =
         SelectSeq(publications, LAMBDA r : AllButExclusionHold(r, filters))

\* C5 witness: include and exclude sets both set; a record that satisfies the
\* inclusion constraint and carries an excluded tag is not listed, while
\* another record is.
C5_Witness ==
  /\ filters.includeTags.a # << >> /\ filters.excludeTags.a # << >>
  /\ filtered.val # << >>
  /\ \E i \in DOMAIN publications :
       /\ AllButExclusionHold(publications[i], filters)
       /\ ~ExclusionHolds(publications[i], filters)
       /\ ~InList(publications[i], filtered.val)

\* C6 (as claimed): in every copy of the filter the title and link
\* constraints are satisfied exactly when the criterion occurs in the field
\* with letter case ignored.
C6_TextConstraints ==
  /\ ret["mainView"].called =>
       /\ titleMatch(argItem, argFilters) = TitleHolds(argItem, argFilters)
       /\ linkMatch(argItem, argFilters) = LinkHolds(argItem, argFilters)
  /\ ret["searchBar"].called =>
       /\ searchBar_titleMatch(argItem, argFilters)
            = TitleHolds(argItem, argFilters)
       /\ searchBar_linkMatch(argItem, argFilters)
            = LinkHolds(argItem, argFilters)

\* The PMID is text that is no number: blank, or with a non-digit character.
PmidNotANumber(item) ==
  /\ item.pmid.t = "string"
  /\ \/ TrimEnd(TrimStart(item.pmid.s)) = << >>
     \/ ~AllDigits(TrimEnd(TrimStart(item.pmid.s)))

\* C7 (as claimed): a record whose PMID is not a number is rejected whenever
\* pmidMin or pmidMax is set, and passes the PMID constraint when neither is.
C7_NonNumericPmidFails ==
  ret["mainView"].called /\ PmidNotANumber(argItem) =>
    /\ ~ret["mainView"].threw
    /\ BoundSet(argFilters.pmidMin) \/ BoundSet(argFilters.pmidMax)
         => ~pmidMatch(argItem, argFilters) /\ ~ret["mainView"].val
    /\ ~BoundSet(argFilters.pmidMin) /\ ~BoundSet(argFilters.pmidMax)
         => pmidMatch(argItem, argFilters)

\* The five constraints other than the date range.
AllButDateHold(item, c) ==
  /\ TitleHolds(item, c) /\ LinkHolds(item, c) /\ PmidHolds(item, c)
  /\ InclusionHolds(item, c) /\ ExclusionHolds(item, c)

\* C8: a record whose date cannot be parsed is rejected, without an error,
\* whenever dateFrom or dateTo is set; with neither set the date does not
\* count, and the record is accepted exactly when the other constraints hold.
C8_UnparsableDateRejected ==
  ret["mainView"].called /\ ~Parsable(argItem.DP) =>
    /\ ~ret["mainView"].threw
    /\ argFilters.dateFrom # << >> \/ argFilters.dateTo # << >>
         => ~dateMatch(argItem, argFilters) /\ ~ret["mainView"].val
    /\ argFilters.dateFrom = << >> /\ argFilters.dateTo = << >>
         => /\ dateMatch(argItem, argFilters)
            /\ ret["mainView"].val = AllButDateHold(argItem, argFilters)

\* C8 witness: an unparsable date, a date bound set, every other constraint
\* satisfied, and the call has returned false.
C8_Witness ==
  /\ ret["mainView"].called /\ ~ret["mainView"].threw /\ ~ret["mainView"].val
  /\ ~Parsable(argItem.DP) /\ argItem.DP # << >>
  /\ Parsable(argFilters.dateFrom)
  /\ AllButDateHold(argItem, argFilters)

\* C9 (as claimed): no copy of the filter throws, on any record of the data
\* model and any criteria that apply or clear can commit.
C9_FilterNeverThrows == \A c \in Copies : ~ret[c].threw

\* The positions of the records that satisfy all six constraints.
MatchingPositions ==
  { i \in DOMAIN publications : AllSixHold(publications[i], filters) }

\* C10 state part: the filtered list holds exactly the matching records, each
\* once, in dataset order; in the worked scenario it is [Beta, Gamma].
C10_ExactlyTheMatchesInOrder ==
  /\ ~filtered.threw
  /\ \E pos \in [DOMAIN filtered.val -> DOMAIN publications] :
       /\ \A k, l \in DOMAIN pos : k < l => pos[k] < pos[l]
       /\ { pos[k] : k \in DOMAIN pos } = MatchingPositions
       /\ \A k \in DOMAIN pos : filtered.val[k] = publications[pos[k]]
  /\ /\ publications = SubSeq(Catalogue, 1, 3)
     /\ filters = [DefaultFilters EXCEPT !.pmidMin = Str(DecimalString(150))]
     => filtered.val = << Catalogue[2], Catalogue[3] >>

\* C10: the filtered list is a subsequence of the dataset holding exactly the
\* matching records in their original order, and no step changes the dataset.
C10_FilteredSubsequence ==
  /\ [] C10_ExactlyTheMatchesInOrder
  /\ [][publications' = publications]_vars

\* C10 witness: criteria are committed that keep two or more records of the
\* dataset and drop at least one.
C10_Witness ==
  /\ filters # DefaultFilters
  /\ Len(filtered.val) >= 2
  /\ Len(filtered.val) < Len(publications)

(***************************************************************************)
(* The contract of the sort engine, stated on the data                     *)
(***************************************************************************)

\* The record has no publication date: the field is absent or empty.
DateMissing(pub) == pub.DP = << >>

\* The two records have equal sort keys: the comparator of the field returns
\* 0 for them, or neither has a date that can be read.
SameSortKey(a, b, by) ==
  LET c == compare(SortValue(a, by), SortValue(b, by))
  IN  \/ ~c.nan /\ c.v = 0
      \/ by = "DP" /\ ~Parsable(a.DP) /\ ~Parsable(b.DP)

\* The comparator of the field and direction ranks a strictly before b.
RanksBefore(dir, by, a, b) ==
  LET c == getComparator(dir, by, a, b) IN ~c.nan /\ c.v < 0

\* The position of a record in an array that holds it once.
PositionIn(out, rec) == CHOOSE k \in DOMAIN out : out[k] = rec

\* rows holds the elements of arr, each as often as arr does.
IsPermutation(out, arr) ==
  /\ Len(out) = Len(arr)
  /\ \A k \in DOMAIN arr :
       Cardinality({ j \in DOMAIN out : out[j] = arr[k] })
         = Cardinality({ j \in DOMAIN arr : arr[j] = arr[k] })

C12_MissingDatesFirst ==
  sortRet.called /\ argOrderBy = "DP" /\ argOrder = "asc" =>
    \A i, j \in DOMAIN sortRet.rows :
      i < j => ~(~DateMissing(sortRet.rows[i]) /\ DateMissing(sortRet.rows[j]))

\* C13 (as claimed): the sorted rows are a permutation of the array, and no
\* row is ranked strictly before a row that stands ahead of it.
C13_PermutationInOrder ==
  sortRet.called =>
    /\ IsPermutation(sortRet.rows, argArr)
    /\ \A i, j \in DOMAIN sortRet.rows :
         i < j => ~RanksBefore(argOrder, argOrderBy,
                               sortRet.rows[j], sortRet.rows[i])

(***************************************************************************)
(* The contract of the table, stated on the state                          *)
(***************************************************************************)

\* out is arr in the default order: a permutation of arr, ascending by Title,
\* records with equal titles in the order of arr.
DefaultOrder(out, arr) ==
  /\ IsPermutation(out, arr)
  /\ \A i, j \in DOMAIN out :
       i < j =>
         /\ ~RanksBefore("asc", "Title", out[j], out[i])
         /\ SameSortKey(out[i], out[j], "Title") =>
              PositionIn(arr, out[i]) < PositionIn(arr, out[j])

\* C14 (as claimed): after a click on the header of the active sort key the
\* direction is the opposite of what it was and the sort key is the same.
C14_ActiveHeaderFlips ==
  clicked.is /\ clicked.property = clicked.orderBy =>
    /\ orderBy = clicked.orderBy
    /\ order = Flip(clicked.order)

\* C15: after a click on the header of a field that was not the sort key, that
\* field is the sort key and the direction is ascending.
C15_NewHeaderAscending ==
  clicked.is /\ clicked.property # clicked.orderBy =>
    /\ orderBy = clicked.property
    /\ order = "asc"

\* C15 witness: the table was sorted descending when the header of another
\* field was clicked, and at least two rows are now sorted by that field.
C15_Witness ==
  /\ clicked.is /\ clicked.property # clicked.orderBy
  /\ clicked.order = "desc"
  /\ orderBy = clicked.property /\ order = "asc"
  /\ ~rows.threw /\ Len(rows.val) >= 2

\* C18 (as claimed): every clear leaves the rows equal to the whole dataset in
\* the default order, Title ascending.
C18_ClearRestoresDefaultRows ==
  [][clearFilters =>
       /\ ~rows'.threw
       /\ DefaultOrder(rows'.val, publications)]_vars

(***************************************************************************)
(* The contract of the input surfaces, stated on the state                 *)
(***************************************************************************)

\* The input surface is visible: the dialog is open, the advanced panel of
\* the search bar is expanded.
Visible == IF surface = "SearchDialog" THEN open ELSE showAdvanced

\* A step that edits the draft: typing, choosing tags, switching the logic.
DraftEdit ==
  \/ \E key \in TypedKeys : \E value \in Typed(key) :
       SearchBar_onChange(key, value) \/ SearchDialog_onChange(key, value)
  \/ \E newValue \in PickedTags :
       SearchBar_includeTags(newValue) \/ SearchBar_excludeTags(newValue)
  \/ \E value \in {"AND", "OR"} : SearchBar_includeLogic(value)

\* An explicit apply: the Search or Apply button, the Enter key.
ApplyStep ==
  \/ SearchBar_handleKeyDown \/ SearchBar_Search \/ SearchBar_Apply
  \/ SearchDialog_handleKeyDown \/ SearchDialog_Apply

\* The clear action: the Clear button of the surface.
ClearStep == SearchBar_handleClear \/ SearchDialog_Clear

\* C16: no draft edit changes the committed criteria, the filtered records or
\* the rows; the committed criteria change only in an apply or a clear; and
\* an apply leaves them equal to the whole draft.
C16_CommitOnlyOnApplyOrClear ==
  [][/\ DraftEdit => UNCHANGED << filters, filtered, rows >>
     /\ filters' # filters => ApplyStep \/ ClearStep
     /\ ApplyStep => filters' = draft]_vars

\* C16 witness: criteria were applied and the draft was edited since: the
\* draft differs from the committed criteria, which are not the default, and
\* the rows are those of the committed criteria.
C16_Witness ==
  /\ draft # filters
  /\ filters # DefaultFilters /\ filters # Part001EmptyFilters
  /\ draft.title # filters.title
  /\ ~rows.threw /\ Len(rows.val) >= 1 /\ Len(rows.val) < Len(publications)

\* C17 (as claimed): every clear leaves the committed criteria and the draft
\* equal to the default criteria.
C17_ClearResetsBoth ==
  [][ClearStep =>
       /\ filters' = DefaultFilters
       /\ draft' = DefaultFilters]_vars

\* C19 (as claimed): whenever the surface goes from hidden to visible, the
\* draft equals the committed criteria.
C19_DraftSyncedWhenShown ==
  [][~Visible /\ Visible' => draft' = filters']_vars

(***************************************************************************)
(* The contract of the summary requests, stated on the state               *)
(***************************************************************************)

\* A request of SummaryViewer is stale: the viewer has unmounted, or the
\* selection now has another title than the one it was issued for.
StaleFetch(i) ==
  \/ ~mounted
  \/ TitleProp(selected) # Str(fetches[i].title)

\* A timer of fetchLiveSummary is stale: the view has unmounted, or another
\* record is selected than the one it was started for.
StaleTimer == ~mounted \/ selected # Head(timers)

\* The response to a stale request arrives.
StaleArrival ==
  \/ \E i \in DOMAIN fetches, outcome \in Outcomes :
       StaleFetch(i) /\ FetchSettles(i, outcome)
  \/ timers # << >> /\ StaleTimer /\ TimerFires

\* C20 (as claimed): the arrival of a response to a stale request changes
\* neither the payload, the error nor the loading state, of SummaryViewer or
\* of the live summary.
C20_StaleResponsesIgnored ==
  [][StaleArrival => UNCHANGED << viewer, live >>]_vars

\* The request of the current selection fails: it was not cancelled, and ends
\* with a response that is not 2xx or with no response.
CurrentFetchFails ==
  \E i \in DOMAIN fetches, outcome \in Outcomes \ {"ok"} :
    ~fetches[i].cancelled /\ FetchSettles(i, outcome)

\* The error SummaryViewer displays: {error && ...}.
ErrorShown(v) == v.error # Null /\ v.error.message # ""

\* C21: when the request of the current selection fails, an error message is
\* shown, no payload is shown, loading is cleared, and the committed criteria,
\* the sort key and direction, the page and the rows stay what they were.
C21_FailureShownTableKept ==
  [][CurrentFetchFails =>
       /\ ErrorShown(viewer')
       /\ viewer'.payload = Null
       /\ ~viewer'.loading
       /\ UNCHANGED << filters, filtered, orderBy, order, page, rowsPerPage,
                       rows >>]_vars

\* C21 witness: a request has failed and its error is shown over a table
\* that has rows, with no request left in flight.
C21_Witness ==
  /\ ErrorShown(viewer) /\ viewer.payload = Null /\ ~viewer.loading
  /\ selected # Null /\ fetches = << >>
  /\ ~rows.threw /\ Len(rows.val) >= 2

(***************************************************************************)
(* The contract of the results table's empty state                         *)
(***************************************************************************)

\* The "No matches" row is displayed.
NoMatchesShown == Len(paginatedRows) = 0

\* C22 (as claimed): "No matches" is displayed exactly when no record of the
\* dataset matches the committed criteria, and whenever a record matches, a
\* matching row is displayed.
C22_NoMatchesIffNoneMatch ==
  /\ NoMatchesShown <=> MatchingPositions = {}
  /\ MatchingPositions # {} =>
       \E k \in DOMAIN paginatedRows : AllSixHold(paginatedRows[k], filters)

\* C23 (as claimed): liveLoading is true while a request of fetchLiveSummary
\* is pending.
C23_LiveLoadingWhilePending ==
  mounted /\ timers # << >> => live.loading

\* C24 (as claimed): while SummaryViewer shows loading, a request that was
\* not cancelled is in flight for the current title.
C24_LoadingHasRequest ==
  mounted /\ viewer.loading =>
    \E i \in DOMAIN fetches :
      ~fetches[i].cancelled /\ Str(fetches[i].title) = TitleProp(selected)

(***************************************************************************)
(* SubjectTree: the registry of cards and edges.  SubjectTree.tsx keeps     *)
(* two maps of sets, edgesFromRef and edgesToRef; temp.tsx keeps a list.    *)
(* A Map is a function whose domain is its keys.  The positions measured    *)
(* from the registered elements are left out: no edge depends on them.      *)
(***************************************************************************)

\* new Map()
EmptyMap == << >>

\* map.set(key, value)
MapSet(map, key, value) ==
  [k \in DOMAIN map \cup {key} |-> IF k = key THEN value ELSE map[k]]

\* map.delete(key)
MapDelete(map, key) == [k \in DOMAIN map \ {key} |-> map[k]]

\* The refs of SubjectTree as one value.
Refs(el, from, to) == [el |-> el, from |-> from, to |-> to]

\* register(id, el): elRef.current.set(id, el)
register(refs, id) == [refs EXCEPT !.el = @ \cup {id}]

\* link without the reverse map
link_ForwardOnly(refs, fromId, toId) ==
  [refs EXCEPT
     !.from = MapSet(@, fromId,
                (IF fromId \in DOMAIN @ THEN @[fromId] ELSE {}) \cup {toId})]

\* link(fromId, toId)
\*   const fwd = edgesFromRef.current.get(fromId) ?? new Set<number>();
\*   fwd.add(toId); edgesFromRef.current.set(fromId, fwd);
\*   and the same for rev in edgesToRef
link(refs, fromId, toId) ==
  [refs EXCEPT
     !.from = MapSet(@, fromId,
                (IF fromId \in DOMAIN @ THEN @[fromId] ELSE {}) \cup {toId}),
     !.to = MapSet(@, toId,
              (IF toId \in DOMAIN @ THEN @[toId] ELSE {}) \cup {fromId})]

\* const set = map.get(key); if (set) { set.delete(member);
\*   if (!set.size) map.delete(key); }
DeleteMember(map, key, member) ==
  IF key \notin DOMAIN map THEN map
  ELSE IF map[key] \ {member} = {} THEN MapDelete(map, key)
  ELSE MapSet(map, key, map[key] \ {member})

\* unlink(fromId, toId)
unlink(refs, fromId, toId) ==
  [refs EXCEPT !.from = DeleteMember(@, fromId, toId),
               !.to = DeleteMember(@, toId, fromId)]

\* set.forEach((key) => { the body of DeleteMember(map, key, member) })
RECURSIVE ForEachDeleteMember(_, _, _)
ForEachDeleteMember(map, keys, member) ==
  IF keys = {} THEN map
  ELSE LET key == CHOOSE k \in keys : TRUE
       IN  ForEachDeleteMember(DeleteMember(map, key, member),
                               keys \ {key}, member)

\* The first half of unregister(id): the outgoing edges of id.
\*   const fromSet = edgesFromRef.current.get(id);
\*   if (fromSet) { fromSet.forEach(...); edgesFromRef.current.delete(id); }
unregister_Outgoing(refs, id) ==
  IF id \in DOMAIN refs.from
    THEN [refs EXCEPT !.to = ForEachDeleteMember(@, refs.from[id], id),
                      !.from = MapDelete(@, id)]
    ELSE refs

\* The second half: the incoming edges of id.
unregister_Incoming(refs, id) ==
  IF id \in DOMAIN refs.to
    THEN [refs EXCEPT !.from = ForEachDeleteMember(@, refs.to[id], id),
                      !.to = MapDelete(@, id)]
    ELSE refs

\* unregister(id): elRef.current.delete(id); posRef.current.delete(id);
\* then the two halves
unregister(refs, id) ==
  unregister_Incoming(
    unregister_Outgoing([refs EXCEPT !.el = @ \ {id}], id), id)

\* unlinkAllFor(nodeId): unregister(nodeId)
unlinkAllFor(refs, nodeId) == unregister(refs, nodeId)

(***************************************************************************)
(* SubjectTree: cards mounting, toggling and unmounting                     *)
(***************************************************************************)

\* The most card ids the counter hands out.
MaxCardId == 9

\* defaultOpenDepth = 2
defaultOpenDepth == 2

TreeFiles == {"SubjectTree.tsx", "temp.tsx"}

\* The data: a subject with two children, one of them three levels deep.
TreeNodes == {"subject", "cells", "plants", "bone", "muscle"}

\* node.children
Kids ==
  [n \in TreeNodes |->
     CASE n = "subject" -> << "cells", "plants" >>
       [] n = "cells" -> << "bone" >>
       [] n = "bone" -> << "muscle" >>
       [] OTHER -> << >>]

ParentOf(n) == CHOOSE q \in TreeNodes : \E i \in DOMAIN Kids[q] : Kids[q][i] = n

RECURSIVE DepthOf(_)
DepthOf(n) == IF n = "subject" THEN 0 ELSE DepthOf(ParentOf(n)) + 1

RECURSIVE IsBelow(_, _)
IsBelow(n, top) ==
  n # "subject" /\ (ParentOf(n) = top \/ IsBelow(ParentOf(n), top))

\* The cards a render mounts for a node at a depth, in render order: its own,
\* and those of its children if it starts open.
\*   const [open, setOpen] = React.useState(depth < defaultOpenDepth);
\*   {hasKids && open && ( ... node.children!.map(...) )}
RECURSIVE NodeCard(_, _), NodeCards(_, _)
NodeCard(n, depth) ==
  << n >> \o (IF depth < defaultOpenDepth THEN NodeCards(Kids[n], depth + 1)
              ELSE << >>)

NodeCards(list, depth) ==
  IF list = << >> THEN << >>
  ELSE NodeCard(Head(list), depth) \o NodeCards(Tail(list), depth)

IndexOf(list, n) == CHOOSE i \in DOMAIN list : list[i] = n

\* The cards after those of list mounted: each takes the next id,
\*   const id = React.useMemo(() => NEXT_ID++, []);
\* and is handed the id of its parent's card.
Mount(old, list, first) ==
  [n \in TreeNodes |->
     IF \E i \in DOMAIN list : list[i] = n
       THEN [id |-> first + IndexOf(list, n) - 1,
             open |-> DepthOf(n) < defaultOpenDepth,
             parentId |->
               IF n = "subject" THEN Null
               ELSE IF \E i \in DOMAIN list : list[i] = ParentOf(n)
                 THEN [n |-> first + IndexOf(list, ParentOf(n)) - 1]
                 ELSE [n |-> old[ParentOf(n)].id]]
       ELSE old[n]]

\* The effects of the mounted cards of SubjectTree.tsx, children first:
\*   register(id, cardRef.current);
\*   if (parentId != null) { link(parentId, id); ... }
RECURSIVE MountEffects(_, _, _)
MountEffects(refs, list, now) ==
  IF list = << >> THEN refs
  ELSE LET card == now[list[Len(list)]]
           rest == SubSeq(list, 1, Len(list) - 1)
       IN  MountEffects(
             IF card.parentId = Null THEN register(refs, card.id)
             ELSE link(register(refs, card.id), card.parentId.n, card.id),
             rest, now)

\* The cleanups of the unmounted cards of SubjectTree.tsx:
\*   unlinkAllFor(id); unregister(id);  and then  unlink(parentId, id);
RECURSIVE UnmountCleanups(_, _, _)
UnmountCleanups(refs, gone, now) ==
  IF gone = {} THEN refs
  ELSE LET n == CHOOSE g \in gone : \A h \in gone : ~IsBelow(g, h)
           card == now[n]
           cleaned == unregister(unlinkAllFor(refs, card.id), card.id)
       IN  UnmountCleanups(
             IF card.parentId = Null THEN cleaned
             ELSE unlink(cleaned, card.parentId.n, card.id),
             gone \ {n}, now)

\* The effects of the mounted cards of temp.tsx:
\*   register(id, cardRef.current);
\*   if (parentId != null) { addEdge(parentId, id); ... }
\* of which addEdge is edgesRef.current.push({ fromId, toId }).
RECURSIVE AddEdges(_, _, _)
AddEdges(edges, list, now) ==
  IF list = << >> THEN edges
  ELSE LET card == now[list[Len(list)]]
           rest == SubSeq(list, 1, Len(list) - 1)
       IN  AddEdges(
             IF card.parentId = Null THEN edges
             ELSE Append(edges, [fromId |-> card.parentId.n, toId |-> card.id]),
             rest, now)

\* The render of SubjectTree of temp.tsx that measure() forces:
\*   edgesRef.current = [];
\* The cards keep their effects, whose dependencies did not change.
temp_Render(edges) == << >>

Ids(list, now) == { now[list[i]].id : i \in DOMAIN list }

\* The cards of list mount into the tree.
MountInto(old, list) ==
  LET now == Mount(old, list, NEXT_ID)
      refs == MountEffects(Refs(elRef, edgesFrom, edgesTo), list, now)
  IN  /\ NEXT_ID + Len(list) - 1 <= MaxCardId
      /\ cards' = now
      /\ NEXT_ID' = NEXT_ID + Len(list)
      /\ IF treeFile = "SubjectTree.tsx"
           THEN /\ elRef' = refs.el
                /\ edgesFrom' = refs.from
                /\ edgesTo' = refs.to
                /\ UNCHANGED edgesRef
           ELSE /\ elRef' = elRef \cup Ids(list, now)
                /\ edgesRef' = temp_Render(AddEdges(edgesRef, list, now))
                /\ UNCHANGED << edgesFrom, edgesTo >>

\* The cards of the nodes in gone unmount.
UnmountFrom(old, gone) ==
  LET refs == UnmountCleanups(Refs(elRef, edgesFrom, edgesTo), gone, old)
  IN  /\ cards' = [n \in TreeNodes |-> IF n \in gone THEN Null ELSE old[n]]
      /\ IF treeFile = "SubjectTree.tsx"
           THEN /\ elRef' = refs.el
                /\ edgesFrom' = refs.from
                /\ edgesTo' = refs.to
                /\ UNCHANGED edgesRef
           ELSE /\ edgesRef' = temp_Render(edgesRef)
                /\ UNCHANGED << elRef, edgesFrom, edgesTo >>

IsMounted(n) == cards[n] # Null

\* The toggle of a closed card with children: setOpen((v) => !v), and its
\* children mount.
Expand(n) ==
  /\ IsMounted(n) /\ Kids[n] # << >> /\ ~cards[n].open
  /\ MountInto([cards EXCEPT ![n].open = TRUE],
               NodeCards(Kids[n], DepthOf(n) + 1))
  /\ UNCHANGED << treeFile, called, notTreeVars >>

\* The toggle of an open card with children: the cards below it unmount.
Collapse(n) ==
  /\ IsMounted(n) /\ Kids[n] # << >> /\ cards[n].open
  /\ UnmountFrom([cards EXCEPT ![n].open = FALSE],
                 { g \in TreeNodes : IsMounted(g) /\ IsBelow(g, n) })
  /\ UNCHANGED << treeFile, NEXT_ID, called, notTreeVars >>

NoRefs ==
  /\ elRef' = {}
  /\ edgesFrom' = EmptyMap
  /\ edgesTo' = EmptyMap
  /\ edgesRef' = << >>

\* The page leaves the tree: every card unmounts, and the refs go with the
\* component.
UnmountTree ==
  /\ IsMounted("subject")
  /\ cards' = [n \in TreeNodes |-> Null]
  /\ NoRefs
  /\ UNCHANGED << treeFile, NEXT_ID, called, notTreeVars >>

\* The page shows the tree again: fresh refs, the module's counter goes on.
MountTree ==
  /\ ~IsMounted("subject")
  /\ LET list == NodeCard("subject", 0)
         now == Mount(cards, list, NEXT_ID)
         refs == MountEffects(Refs({}, EmptyMap, EmptyMap), list, now)
     IN  /\ NEXT_ID + Len(list) - 1 <= MaxCardId
         /\ cards' = now
         /\ NEXT_ID' = NEXT_ID + Len(list)
         /\ elRef' = refs.el
         /\ IF treeFile = "SubjectTree.tsx"
              THEN /\ edgesFrom' = refs.from
                   /\ edgesTo' = refs.to
                   /\ edgesRef' = << >>
              ELSE /\ edgesRef' = temp_Render(AddEdges(<< >>, list, now))
                   /\ edgesFrom' = EmptyMap
                   /\ edgesTo' = EmptyMap
  /\ UNCHANGED << treeFile, called, notTreeVars >>

PageIdle ==
  /\ engine = "run"
  /\ MainViewMounted(<< >>)
  /\ argItem = BaseItem
  /\ argFilters = DefaultFilters
  /\ ret = [c \in Copies |-> NotCalled]
  /\ SortIdle /\ SearchIdle /\ SummaryIdle

\* Either SubjectTree, about to be shown for the first time.
InitTree ==
  /\ treeFile \in TreeFiles
  /\ cards = [n \in TreeNodes |-> Null]
  /\ NEXT_ID = 1
  /\ elRef = {}
  /\ edgesFrom = EmptyMap
  /\ edgesTo = EmptyMap
  /\ edgesRef = << >>
  /\ called = NoCall
  /\ PageIdle /\ TypingIdle /\ TimelineIdle

NextTree ==
  \/ MountTree
  \/ UnmountTree
  \/ \E n \in TreeNodes : Expand(n)
  \/ \E n \in TreeNodes : Collapse(n)

SpecTree == InitTree /\ [][NextTree]_vars

\* The edges the registry holds.
RegisteredEdges ==
  IF treeFile = "SubjectTree.tsx"
    THEN { << a, b >> \in (DOMAIN edgesFrom) \X (1..MaxCardId) :
             b \in edgesFrom[a] }
    ELSE { << edgesRef[i].fromId, edgesRef[i].toId >> : i \in DOMAIN edgesRef }

\* The (parent id, child id) pairs of the mounted child cards.
MountedEdges ==
  { << cards[n].parentId.n, cards[n].id >> :
      n \in { g \in TreeNodes : cards[g] # Null /\ cards[g].parentId # Null } }

\* C25 (as claimed): once the effects and cleanups of a mount, toggle or
\* unmount have run, the registered edges are exactly the (parent id, child
\* id) pairs of the mounted child cards.
C25_EdgesAreMountedPairs == RegisteredEdges = MountedEdges

\* The same of SubjectTree.tsx alone, where it holds.
SubjectTree_EdgesAreMountedPairs ==
  treeFile = "SubjectTree.tsx" => RegisteredEdges = MountedEdges

(***************************************************************************)
(* The registry operations called in any order, with any ids                *)
(***************************************************************************)

\* The ids the operations are called with.
MaxIds == 2

RegistryIds == 1..MaxIds

RegistryCall(refs, op, args) ==
  /\ elRef' = refs.el
  /\ edgesFrom' = refs.from
  /\ edgesTo' = refs.to
  /\ called' = [op |-> op, args |-> args]
  /\ UNCHANGED << treeFile, cards, NEXT_ID, edgesRef, notTreeVars >>

CallRegister(id) ==
  RegistryCall(register(Refs(elRef, edgesFrom, edgesTo), id), "register",
               << id >>)

CallLink(fromId, toId) ==
  RegistryCall(link(Refs(elRef, edgesFrom, edgesTo), fromId, toId), "link",
               << fromId, toId >>)

CallUnlink(fromId, toId) ==
  RegistryCall(unlink(Refs(elRef, edgesFrom, edgesTo), fromId, toId), "unlink",
               << fromId, toId >>)

CallUnregister(id) ==
  RegistryCall(unregister(Refs(elRef, edgesFrom, edgesTo), id), "unregister",
               << id >>)

InitRegistry == PageIdle /\ TreeIdle /\ TypingIdle /\ TimelineIdle

NextRegistry ==
  \/ \E id \in RegistryIds : CallRegister(id)
  \/ \E a \in RegistryIds, b \in RegistryIds : CallLink(a, b)
  \/ \E a \in RegistryIds, b \in RegistryIds : CallUnlink(a, b)
  \/ \E id \in RegistryIds : CallUnregister(id)

SpecRegistry == InitRegistry /\ [][NextRegistry]_vars

\* b is in edgesFrom[a] exactly when a is in edgesTo[b].
MutualInverses ==
  /\ \A a \in DOMAIN edgesFrom : \A b \in edgesFrom[a] :
       b \in DOMAIN edgesTo /\ a \in edgesTo[b]
  /\ \A b \in DOMAIN edgesTo : \A a \in edgesTo[b] :
       a \in DOMAIN edgesFrom /\ b \in edgesFrom[a]

NoEmptySet ==
  /\ \A a \in DOMAIN edgesFrom : edgesFrom[a] # {}
  /\ \A b \in DOMAIN edgesTo : edgesTo[b] # {}

\* The id is no key and in no set of either map.
Absent(id) ==
  /\ id \notin DOMAIN edgesFrom /\ id \notin DOMAIN edgesTo
  /\ \A a \in DOMAIN edgesFrom : id \notin edgesFrom[a]
  /\ \A b \in DOMAIN edgesTo : id \notin edgesTo[b]

\* C26: after any sequence of link, unlink and unregister calls, repeated,
\* unmatched and on self-edges too, the two maps are mutual inverses and
\* neither keeps an empty set; and after unregister(id) the id is a key of
\* neither map and in no set of either.
C26_MapsStayInverse ==
  /\ [](MutualInverses /\ NoEmptySet)
  /\ [][\A id \in RegistryIds : CallUnregister(id) => Absent(id)']_vars

\* unregister(1) was called last, and of the edges between the two ids it
\* left the self-edge of the other id.
C26_Witness ==
  /\ called = [op |-> "unregister", args |-> << 1 >>]
  /\ edgesFrom = [a \in {2} |-> {2}]
  /\ edgesTo = [b \in {2} |-> {2}]

(***************************************************************************)
(* SummaryViewer: the typewriter of the summary and of the list bullets     *)
(***************************************************************************)

\* The longest summary of the payloads.
MaxSummaryLen == 2

\* A summary of a length.
SummaryOfLen(n) == [i \in 1..n |-> "s"]

\* A field of a payload with a list of strings, and one with a string.
ListField(k, items) == [k |-> k, list |-> TRUE, items |-> items]

StringField(k) == [k |-> k, list |-> FALSE, items |-> << >>]

\* The fields of the payloads beside the summary, in the order of the JSON.
FieldLayouts ==
  { << ListField("methods", << << "m" >> >>),
       ListField("key_findings", << << "a", "b" >>, << "c" >> >>) >>,
    << ListField("limitations", << << "d" >> >>),
       StringField("note"),
       ListField("future_directions", << >>) >> }

\* The payloads the endpoint answers with.
Payloads ==
  { [summary |-> SummaryOfLen(n), fields |-> f] :
      n \in 0..MaxSummaryLen, f \in FieldLayouts }

\* const summaryText = (payload?.summary ?? "").toString();
summaryText(data) == IF data = Null THEN << >> ELSE data.summary

\* const preferredOrder = ["key_findings", "limitations", "future_directions"];
preferredOrder == << "key_findings", "limitations", "future_directions" >>

\* The keys of the payloads in the order of localeCompare.
Alphabetical ==
  << "future_directions", "key_findings", "limitations", "methods", "note" >>

\* list.indexOf(k), with Infinity for -1 as the comparator has it
indexOf(list, k) ==
  IF \E i \in DOMAIN list : list[i] = k
    THEN CHOOSE i \in DOMAIN list : list[i] = k
    ELSE Len(list) + 1

\* The comparator of keys.sort: da - db || a.localeCompare(b), where a key
\* that is not preferred has the index Infinity.
KeyBefore(a, b) ==
  IF indexOf(preferredOrder, a) # indexOf(preferredOrder, b)
    THEN indexOf(preferredOrder, a) < indexOf(preferredOrder, b)
    ELSE indexOf(Alphabetical, a) < indexOf(Alphabetical, b)

\* keys.sort(...): the keys are distinct and the comparator orders them
\* totally, so every sort gives this array.
RECURSIVE SortedFields(_)
SortedFields(fields) ==
  IF fields = << >> THEN << >>
  ELSE LET i == CHOOSE j \in DOMAIN fields :
                  \A h \in DOMAIN fields :
                    h = j \/ KeyBefore(fields[j].k, fields[h].k)
       IN  << fields[i] >> \o
           SortedFields(SubSeq(fields, 1, i - 1) \o
                        SubSeq(fields, i + 1, Len(fields)))

\* listSections: the sorted fields whose value is a list of strings that is
\* not empty.
\*   const arr = asStringArray((payload as any)[k]);
\*   if (arr && arr.length) out.push(...)
listSections(data) ==
  IF data = Null THEN << >>
  ELSE SelectSeq(SortedFields(data.fields),
                 LAMBDA f : f.list /\ f.items # << >>)

\* The bullets in the global order: globalOffset + i over the sections.
RECURSIVE Flatten(_)
Flatten(sections) ==
  IF sections = << >> THEN << >>
  ELSE Head(sections).items \o Flatten(Tail(sections))

Bullets(data) == Flatten(listSections(data))

\* useTypewriter: const done = cursor >= fullText.length;
done(fullText, c) == c >= Len(fullText)

\* useTypewriter: setCursor((c) => Math.min(c + 1, fullText.length))
tick(fullText, c) == IF c + 1 <= Len(fullText) THEN c + 1 ELSE Len(fullText)

summaryDone == done(summaryText(summaryData), cursor)

\* What the list rendering makes of the bullet with a global index, of the
\* first bullet 0:
\*   if (!summaryDone) return null;
\*   if (globalIdx < bulletIndex) return <li>{item}</li>;
\*   if (globalIdx === bulletIndex) return <li><BulletTyper .../></li>;
\*   return null;
RenderBullet(isDone, index, globalIdx) ==
  IF ~isDone THEN "null"
  ELSE IF globalIdx < index THEN "item"
  ELSE IF globalIdx = index THEN "BulletTyper"
  ELSE "null"

Indexes(data) == 0..(Len(Bullets(data)) - 1)

\* The BulletTyper rendered for data, or none.
TyperOf(data, isDone, index) ==
  IF data # Null /\ index \in Indexes(data)
       /\ RenderBullet(isDone, index, index) = "BulletTyper"
    THEN [globalIdx |-> index, cursor |-> 0]
    ELSE Null

\* The renders and effects that follow a change of state, given the payload,
\* the cursor and the bulletIndex the handler set, and whether the
\* BulletTyper is kept:
\*   useEffect(() => { if (!summaryDone) setBulletIndex(0); }, [summaryDone]);
\* and a BulletTyper mounts, with cursor 0, where none was rendered for the
\* same bullet.
Rerender(data, c, index, keep) ==
  LET now == done(summaryText(data), c)
      reset == now # summaryDone /\ ~now
      next == IF reset THEN 0 ELSE index
      fresh == TyperOf(data, now, next)
  IN  /\ summaryData' = data
      /\ cursor' = c
      /\ bulletIndex' = next
      /\ typer' = IF keep /\ typer # Null /\ fresh # Null
                       /\ typer.globalIdx = fresh.globalIdx
                    THEN typer ELSE fresh

\* The title changes: setPayload(null), and the request goes out.
TitleChanges ==
  /\ summaryData # Null
  /\ Rerender(Null, cursor, bulletIndex, FALSE)
  /\ UNCHANGED << controls, playing, finished, notTypingVars >>

\* The request settles: setPayload(j).
PayloadLoads(data) ==
  /\ summaryData = Null
  /\ Rerender(data, cursor, bulletIndex, FALSE)
  /\ finished' = {}
  /\ UNCHANGED << controls, playing, notTypingVars >>

\* The interval of the summary's useTypewriter fires; it is set while
\* playing and not done.
SummaryTick ==
  /\ playing /\ ~summaryDone
  /\ Rerender(summaryData, tick(summaryText(summaryData), cursor),
              bulletIndex, TRUE)
  /\ UNCHANGED << controls, playing, finished, notTypingVars >>

\* The interval of the BulletTyper fires; when its text is done it calls
\* onDone: setBulletIndex(globalIdx + 1).
BulletTick ==
  /\ typer # Null /\ playing
  /\ LET text == Bullets(summaryData)[typer.globalIdx + 1]
         c == tick(text, typer.cursor)
     IN  /\ ~done(text, typer.cursor)
         /\ IF done(text, c)
              THEN /\ Rerender(summaryData, cursor, typer.globalIdx + 1, TRUE)
                   /\ finished' = finished \cup {typer.globalIdx}
              ELSE /\ typer' = [typer EXCEPT !.cursor = c]
                   /\ UNCHANGED << summaryData, cursor, bulletIndex, finished >>
  /\ UNCHANGED << controls, playing, notTypingVars >>

\* The Pause / Play button: setPlaying((p) => !p)
TogglePlaying ==
  /\ controls
  /\ playing' = ~playing
  /\ UNCHANGED << controls, summaryData, cursor, bulletIndex, typer, finished,
                  notTypingVars >>

\* The Replay button: resetSummary(); setBulletIndex(0); setPlaying(true);
resetAll ==
  /\ controls
  /\ Rerender(summaryData, 0, 0, TRUE)
  /\ playing' = TRUE
  /\ finished' = {}
  /\ UNCHANGED << controls, notTypingVars >>

InitViewer ==
  /\ controls \in BOOLEAN
  /\ summaryData = Null
  /\ playing = TRUE
  /\ cursor = 0
  /\ bulletIndex = 0
  /\ typer = Null
  /\ finished = {}
  /\ PageIdle /\ TreeIdle /\ TimelineIdle

NextViewer ==
  \/ TitleChanges
  \/ \E data \in Payloads : PayloadLoads(data)
  \/ SummaryTick
  \/ BulletTick
  \/ TogglePlaying
  \/ resetAll

SpecViewer == InitViewer /\ [][NextViewer]_vars

\* C27 (as claimed): the cursor of the summary's typewriter is at least 0
\* and at most the length of the text being typed; a tick while playing and
\* not done advances it by exactly one; once done no tick changes it.
C27_CursorWithinText ==
  /\ [](cursor >= 0 /\ cursor <= Len(summaryText(summaryData)))
  /\ [][SummaryTick => cursor' = cursor + 1]_vars

\* The bullets shown in full, and the one being typed.
ShownItems ==
  IF summaryData = Null THEN {}
  ELSE { k \in Indexes(summaryData) :
           RenderBullet(summaryDone, bulletIndex, k) = "item" }

ShownTypers ==
  IF summaryData = Null THEN {}
  ELSE { k \in Indexes(summaryData) :
           RenderBullet(summaryDone, bulletIndex, k) = "BulletTyper" }

\* C28 (as claimed): no bullet is shown while the summary of the payload is
\* being typed; a bullet is shown only after the bullets before it were
\* typed to their end for this payload; at most one bullet is being typed;
\* a payload that loads starts from its first bullet.
C28_BulletsInOrderAfterSummary ==
  /\ [](cursor < Len(summaryText(summaryData)) =>
          ShownItems \cup ShownTypers = {})
  /\ [](\A k \in ShownItems \cup ShownTypers : \A j \in 0..(k - 1) :
          j \in finished)
  /\ [](Cardinality(ShownTypers) <= 1)
  /\ [][\A data \in Payloads : PayloadLoads(data) => ShownItems' = {}]_vars

(***************************************************************************)
(* SimpleTimeline: the positions of the dots of the vertical timeline.      *)
(* The numbers are exact fractions, in lowest terms; times are in minutes.  *)
(***************************************************************************)

\* The most items of a timeline.
MaxItems == 5

RECURSIVE Gcd(_, _)
Gcd(a, b) == IF b = 0 THEN a ELSE Gcd(b, a % b)

Abs(n) == IF n < 0 THEN -n ELSE n

\* The number n / d, for d > 0.
Frac(n, d) ==
  LET g == Gcd(Abs(n), d) IN [n |-> n \div g, d |-> d \div g]

Whole(n) == Frac(n, 1)

FracAdd(x, y) == Frac(x.n * y.d + y.n * x.d, x.d * y.d)

FracSub(x, y) == Frac(x.n * y.d - y.n * x.d, x.d * y.d)

FracMul(x, y) == Frac(x.n * y.n, x.d * y.d)

\* x / y, for y > 0
FracDiv(x, y) == Frac(x.n * y.d, x.d * y.n)

FracLess(x, y) == x.n * y.d < y.n * x.d

FracMax(x, y) == IF FracLess(x, y) THEN y ELSE x

FracMin(x, y) == IF FracLess(y, x) THEN y ELSE x

\* Math.round(x), for x >= 0
MathRound(x) == (2 * x.n + x.d) \div (2 * x.d)

\* pxPerDay = 16
pxPerDay == 16

\* minHeight = 360
minHeight == 360

\* maxHeight = 2400
maxHeight == 2400

\* padY = 32
padY == 32

\* minGapPx = 28
minGapPx == 28

\* labelBlockPx = 44
labelBlockPx == 44

\* 86_400_000 ms
MinutesPerDay == 1440

\* const clamp = (v, lo, hi) => Math.max(lo, Math.min(hi, v));
clamp(v, lo, hi) == IF (IF hi < v THEN hi ELSE v) < lo THEN lo
                    ELSE IF hi < v THEN hi ELSE v

\* parseDateStable(s).getTime(): a YYYY-MM-DD string is UTC midnight of the
\* day, any other string goes to new Date(s).
parseDateStable(s) ==
  IF IsIsoDate(s) THEN Finite(IsoDay(s) * MinutesPerDay) ELSE NewDate(s)

\* The dates of the items of the timelines: three days in a row.
TimelineDates ==
  { << "2", "0", "2", "0", "-", "0", "1", "-", "0", d >> : d \in {"1", "2", "3"} }

TimelineItems ==
  UNION { [1..n -> { [DP |-> s] : s \in TimelineDates }] : n \in 0..MaxItems }

\* data: the times of the items, sorted by a.date.getTime() - b.date.getTime()
data(list) ==
  SortSeq([i \in DOMAIN list |-> parseDateStable(list[i].DP).v],
          LAMBDA a, b : a < b)

\* const days = Math.max(1, (t1 - t0) / 86_400_000);
spanDays(times) ==
  IF times = << >> THEN Whole(1)
  ELSE FracMax(Whole(1), Frac(times[Len(times)] - times[1], MinutesPerDay))

\* contentHeight, heightPx not being set:
\*   const auto = Math.round(days * pxPerDay) + padY * 2;
\*   clamp(auto, minHeight, maxHeight)
contentHeight(times) ==
  IF times = << >> THEN minHeight
  ELSE clamp(MathRound(FracMul(spanDays(times), Whole(pxPerDay))) + padY * 2,
             minHeight, maxHeight)

railSpan(times) == contentHeight(times) - padY * 2

\* 1) time-based positions within [padY, padY + railSpan]
TimeBased(times, span, rail) ==
  [i \in DOMAIN times |->
     IF ~FracLess(Whole(0), span)
       THEN FracAdd(Whole(padY),
                    Frac(rail * (i - 1),
                         IF Len(times) - 1 < 1 THEN 1 ELSE Len(times) - 1))
       ELSE FracAdd(Whole(padY),
                    FracMul(FracDiv(Frac(times[i] - times[1], MinutesPerDay),
                                    span),
                            Whole(rail)))]

\* const requiredGap = Math.max(minGapPx, labelBlockPx);
requiredGap == IF minGapPx < labelBlockPx THEN labelBlockPx ELSE minGapPx

\* 2) for (let i = 1; i < ys.length; i++)
\*      if (ys[i] - ys[i - 1] < requiredGap) ys[i] = ys[i - 1] + requiredGap;
\* from the index i of the sequence on
RECURSIVE EnforceGap(_, _)
EnforceGap(ys, i) ==
  IF i > Len(ys) THEN ys
  ELSE IF FracLess(FracSub(ys[i], ys[i - 1]), Whole(requiredGap))
    THEN EnforceGap([ys EXCEPT ![i] = FracAdd(ys[i - 1], Whole(requiredGap))],
                    i + 1)
  ELSE EnforceGap(ys, i + 1)

\* 3) if we overflow the rail span, compress back into it
Compress(ys, rail) ==
  IF Len(ys) > 1 /\ FracLess(Whole(padY + rail), ys[Len(ys)])
    THEN LET denom == FracMax(Whole(1), FracSub(ys[Len(ys)], ys[1]))
         IN  [i \in DOMAIN ys |->
                FracAdd(Whole(padY),
                        FracMul(FracDiv(FracSub(ys[i], ys[1]), denom),
                                Whole(rail)))]
    ELSE ys

\* The positions memo.
Positions(list) ==
  IF list = << >> THEN << >>
  ELSE LET times == CHOOSE t \in { data(list) } : TRUE
           rail == railSpan(times)
       IN  Compress(EnforceGap(TimeBased(times, spanDays(times), rail), 2), rail)

\* SimpleTimeline renders its items.
ComputePositions ==
  /\ ~positions.called
  /\ positions' = [called |-> TRUE, ys |-> Positions(timelineItems)]
  /\ UNCHANGED << timelineItems, notTimelineVars >>

InitTimeline ==
  /\ timelineItems \in TimelineItems
  /\ positions = NotComputed
  /\ PageIdle /\ TreeIdle /\ TypingIdle

NextTimeline == ComputePositions

SpecTimeline == InitTimeline /\ [][NextTimeline]_vars

\* The dots lie on the rail, in the order of the dates.
WithinRail ==
  \A i \in DOMAIN positions.ys :
    /\ ~FracLess(positions.ys[i], Whole(padY))
    /\ ~FracLess(Whole(contentHeight(data(timelineItems)) - padY),
                 positions.ys[i])

NonDecreasing ==
  \A i \in DOMAIN positions.ys : \A j \in DOMAIN positions.ys :
    i < j => ~FracLess(positions.ys[j], positions.ys[i])

\* C29 (as claimed): for items with valid dates the dot positions are
\* non-decreasing in date order, lie within [padY, contentHeight - padY],
\* and consecutive dots are at least max(minGapPx, labelBlockPx) apart.
C29_DotsSpacedOnRail ==
  positions.called =>
    /\ NonDecreasing
    /\ WithinRail
    /\ \A i \in 2..Len(positions.ys) :
         ~FracLess(FracSub(positions.ys[i], positions.ys[i - 1]),
                   Whole(requiredGap))

\* The part of it that holds: order and rail span.
Timeline_OrderedOnRail == positions.called => NonDecreasing /\ WithinRail

(***************************************************************************)
(* The four copies of matchesFilters against each other                     *)
(***************************************************************************)

\* Each copy is called with the record and the criteria.
CallCopies ==
  /\ \A c \in Copies : ~ret[c].called
  /\ ret' =
       [c \in Copies |->
          Called(CASE c = "mainView" -> matchesFilters(argItem, argFilters)
                   [] c = "searchBar" ->
                        searchBar_matchesFilters(argItem, argFilters)
                   [] c = "part_000" ->
                        part000_matchesFilters(argItem, argFilters)
                   [] c = "part_001" ->
                        part001_matchesFilters(argItem, argFilters))]
  /\ UNCHANGED << argItem, argFilters, viewVars, restVars >>

InitCopies == InitFilter

NextCopies == CallCopies

SpecCopies == InitCopies /\ [][NextCopies]_vars

\* C30 (as claimed): on a record and criteria, the copies of matchesFilters
\* in mainView.tsx, searchBar.tsx, part_000 and part_001 come to the same
\* decision.
C30_CopiesAgree ==
  (\A c \in Copies : ret[c].called) =>
    \A c \in Copies : \A d \in Copies :
      ret[c].threw = ret[d].threw /\ ret[c].val = ret[d].val

\* The copies of part_000 and part_001, of one text, do agree.
Part000_AgreesWithPart001 ==
  ret["part_000"].called /\ ret["part_001"].called =>
    ret["part_000"] = ret["part_001"]

====
